---- MODULE Spec2Model ----
(***************************************************************************)
(* The search engine of the RAG sample (src/lib/advanced-search-engine.ts):*)
(* record store, chunker, query classifier, retrieval scorer, aggregator   *)
(* and the orchestrator search().                                          *)
(*                                                                         *)
(* Strings are sequences of characters.  A character is a one-character    *)
(* TLA+ string; a character outside ASCII is written by its code point     *)
(* ("U+958B" is the character 開), so that String.includes, toLowerCase and *)
(* split are modelled on the characters and not on whole words.            *)
(*                                                                         *)
(* A relevance is a non-negative real.  The model holds its SQUARE as a    *)
(* reduced fraction [n, d] (the cosine is dot / sqrt(qm * tm), so its      *)
(* square is the rational dot^2 / (qm * tm)); order and equality of        *)
(* non-negative reals are those of their squares.                          *)
(***************************************************************************)
EXTENDS Integers, Sequences, FiniteSets, TLC

VARIABLES
  persons,   \* AdvancedSearchEngine.persons (the record store)
  chunks,    \* AdvancedSearchEngine.chunks
  call,      \* the engine call in progress and its outcome, "idle" between calls
  apiKeySet,     \* isGeminiAvailable(): NEXT_PUBLIC_GEMINI_API_KEY is configured
  pagePersons,   \* HomePage state `persons`
  chatHistory,   \* HomePage state `chatHistory`
  isChatLoading, \* HomePage state `isChatLoading`
  storedChat,    \* the chat history dataManager keeps in localStorage
  requests       \* the handler calls made so far, in order, and how each ended

pageVars ==
  <<apiKeySet, pagePersons, chatHistory, isChatLoading, storedChat, requests>>

vars == <<persons, chunks, call, pageVars>>

(***************************************************************************)
(* Bounds of the model.                                                    *)
(***************************************************************************)
MaxPersons == 2

MaxCorpus == 6

MaxRequests == 2

MaxRows == 2

(***************************************************************************)
(* Strings.                                                                *)
(***************************************************************************)
RECURSIVE Concat(_)
Concat(parts) ==
  IF parts = << >> THEN << >> ELSE Head(parts) \o Concat(Tail(parts))

\* String.prototype.includes
Includes(s, t) ==
  \E i \in 0..(Len(s) - Len(t)) : \A j \in 1..Len(t) : s[i + j] = t[j]

UpperCaseLetters ==
  <<"A", "B", "C", "D", "E", "F", "G", "H", "I", "J", "K", "L", "M",
    "N", "O", "P", "Q", "R", "S", "T", "U", "V", "W", "X", "Y", "Z">>

LowerCaseLetters ==
  <<"a", "b", "c", "d", "e", "f", "g", "h", "i", "j", "k", "l", "m",
    "n", "o", "p", "q", "r", "s", "t", "u", "v", "w", "x", "y", "z">>

\* String.prototype.toLowerCase: the characters used here that have a lower
\* case are the ASCII capitals.
ToLowerCase(s) ==
  [i \in 1..Len(s) |->
     IF \E k \in 1..26 : UpperCaseLetters[k] = s[i]
     THEN LowerCaseLetters[CHOOSE k \in 1..26 : UpperCaseLetters[k] = s[i]]
     ELSE s[i]]

\* The characters of the class [\s,、。] that occur in the model's strings.
Separators == {" ", "\n", ",", "U+3000", "U+3001", "U+3002"}

RECURSIVE SplitFrom(_, _, _)
SplitFrom(s, i, word) ==
  IF i > Len(s)
  THEN IF word = << >> THEN << >> ELSE <<word>>
  ELSE IF s[i] \in Separators
       THEN (IF word = << >> THEN << >> ELSE <<word>>) \o SplitFrom(s, i + 1, << >>)
       ELSE SplitFrom(s, i + 1, Append(word, s[i]))

\* s.split(/[\s,、。]+/).filter(word => word.length > 0)
SplitWords(s) == SplitFrom(s, 1, << >>)

RECURSIVE Join(_, _)
\* Array.prototype.join
Join(list, sep) ==
  IF list = << >> THEN << >>
  ELSE IF Len(list) = 1 THEN list[1]
  ELSE list[1] \o sep \o Join(Tail(list), sep)

DigitChars == <<"0", "1", "2", "3", "4", "5", "6", "7", "8", "9">>

RECURSIVE NumberToString(_)
\* `${n}` of a non-negative integer
NumberToString(n) ==
  IF n < 10 THEN <<DigitChars[n + 1]>>
  ELSE NumberToString(n \div 10) \o <<DigitChars[(n % 10) + 1]>>

(***************************************************************************)
(* Relevances: squares of non-negative reals, as reduced fractions.        *)
(***************************************************************************)
RECURSIVE Gcd(_, _)
Gcd(a, b) == IF b = 0 THEN a ELSE Gcd(b, a % b)

Frac(n, d) == LET g == Gcd(n, d) IN [n |-> n \div g, d |-> d \div g]

\* the relevance k / 10
Tenths(k) == Frac(k * k, 100)

RelLess(a, b) == a.n * b.d < b.n * a.d

\* Math.max
RelMax(a, b) == IF RelLess(a, b) THEN b ELSE a

(* Keyword lists of analyzeQueryType, in source order. *)
exactKeywords ==
  <<
    <<"p", "y", "t", "h", "o", "n">>,  \* python
    <<"j", "a", "v", "a">>,  \* java
    <<"j", "a", "v", "a", "s", "c", "r", "i", "p", "t">>,  \* javascript
    <<"r", "e", "a", "c", "t">>,  \* react
    <<"v", "u", "e">>,  \* vue
    <<"a", "n", "g", "u", "l", "a", "r">>,  \* angular
    <<"n", "o", "d", "e">>,  \* node
    <<"a", "w", "s">>,  \* aws
    <<"a", "z", "u", "r", "e">>,  \* azure
    <<"g", "c", "p">>,  \* gcp
    <<"d", "o", "c", "k", "e", "r">>,  \* docker
    <<"k", "u", "b", "e", "r", "n", "e", "t", "e", "s">>,  \* kubernetes
    <<"s", "q", "l">>,  \* sql
    <<"m", "o", "n", "g", "o", "d", "b">>,  \* mongodb
    <<"r", "e", "d", "i", "s">>,  \* redis
    <<"h", "t", "m", "l">>,  \* html
    <<"c", "s", "s">>,  \* css
    <<"p", "h", "p">>,  \* php
    <<"r", "u", "b", "y">>,  \* ruby
    <<"g", "o">>,  \* go
    <<"U+958B", "U+767A", "U+90E8">>,  \* 開発部
    <<"U+30A4", "U+30F3", "U+30D5", "U+30E9", "U+90E8">>,  \* インフラ部
    <<"U+30C7", "U+30B6", "U+30A4", "U+30F3", "U+90E8">>,  \* デザイン部
    <<"U+55B6", "U+696D", "U+90E8">>,  \* 営業部
    <<"U+4F01", "U+753B", "U+90E8">>,  \* 企画部
    <<"U+4EBA", "U+4E8B", "U+90E8">>,  \* 人事部
    <<"U+7DCF", "U+52D9", "U+90E8">>,  \* 総務部
    <<"U+8CC7", "U+683C">>,  \* 資格
    <<"U+7D4C", "U+9A13">>,  \* 経験
    <<"U+5E74", "U+6570">>,  \* 年数
    <<"U+30B9", "U+30AD", "U+30EB">>,  \* スキル
    <<"U+6280", "U+8853">>,  \* 技術
    <<"U+30D7", "U+30ED", "U+30B0", "U+30E9", "U+30DF", "U+30F3", "U+30B0">>,  \* プログラミング
    <<"U+30B3", "U+30FC", "U+30C7", "U+30A3", "U+30F3", "U+30B0">>  \* コーディング
  >>

analyticalKeywords ==
  <<
    <<"U+4F55", "U+4EBA">>,  \* 何人
    <<"U+4EBA", "U+6570">>,  \* 人数
    <<"U+512A", "U+79C0">>,  \* 優秀
    <<"U+7D4C", "U+9A13">>,  \* 経験
    <<"U+5E74", "U+6570">>,  \* 年数
    <<"U+591A", "U+3044">>,  \* 多い
    <<"U+5C11", "U+306A", "U+3044">>,  \* 少ない
    <<"U+5E73", "U+5747">>,  \* 平均
    <<"U+7D71", "U+8A08">>,  \* 統計
    <<"U+5206", "U+6790">>,  \* 分析
    <<"U+30C8", "U+30C3", "U+30D7">>,  \* トップ
    <<"U+30D9", "U+30B9", "U+30C8">>,  \* ベスト
    <<"U+6700", "U+512A", "U+79C0">>,  \* 最優秀
    <<"U+6700", "U+9AD8">>,  \* 最高
    <<"U+6700", "U+4F4E">>,  \* 最低
    <<"U+6BD4", "U+8F03">>,  \* 比較
    <<"U+30E9", "U+30F3", "U+30AD", "U+30F3", "U+30B0">>,  \* ランキング
    <<"U+9806", "U+4F4D">>,  \* 順位
    <<"U+3069", "U+306E", "U+304F", "U+3089", "U+3044">>,  \* どのくらい
    <<"U+3069", "U+308C", "U+304F", "U+3089", "U+3044">>,  \* どれくらい
    <<"U+4F55", "U+5272">>,  \* 何割
    <<"U+4F55", "U+30D1", "U+30FC", "U+30BB", "U+30F3", "U+30C8">>,  \* 何パーセント
    <<"U+5272", "U+5408">>,  \* 割合
    <<"U+6BD4", "U+7387">>  \* 比率
  >>

generalKeywords ==
  <<
    <<"U+90E8", "U+7F72">>,  \* 部署
    <<"U+4F55", "U+304C", "U+3042", "U+308B">>,  \* 何がある
    <<"U+3069", "U+3093", "U+306A">>,  \* どんな
    <<"U+7279", "U+5FB4">>,  \* 特徴
    <<"U+50BE", "U+5411">>,  \* 傾向
    <<"U+6BD4", "U+8F03">>,  \* 比較
    <<"U+30EA", "U+30B9", "U+30C8">>,  \* リスト
    <<"U+4E00", "U+89A7">>,  \* 一覧
    <<"U+7D39", "U+4ECB">>,  \* 紹介
    <<"U+6559", "U+3048", "U+3066">>,  \* 教えて
    <<"U+8AAC", "U+660E">>,  \* 説明
    <<"U+8A73", "U+7D30">>,  \* 詳細
    <<"U+6982", "U+8981">>,  \* 概要
    <<"U+307E", "U+3068", "U+3081">>,  \* まとめ
    <<"U+30B5", "U+30DE", "U+30EA", "U+30FC">>,  \* サマリー
    <<"U+4F1A", "U+793E">>,  \* 会社
    <<"U+7D44", "U+7E54">>,  \* 組織
    <<"U+30C1", "U+30FC", "U+30E0">>,  \* チーム
    <<"U+30E1", "U+30F3", "U+30D0", "U+30FC">>,  \* メンバー
    <<"U+793E", "U+54E1">>,  \* 社員
    <<"U+5F93", "U+696D", "U+54E1">>  \* 従業員
  >>

conversationalKeywords ==
  <<
    <<"U+304A", "U+3059", "U+3059", "U+3081">>,  \* おすすめ
    <<"U+304A", "U+52E7", "U+3081">>,  \* お勧め
    <<"U+63A8", "U+5968">>,  \* 推奨
    <<"U+9069", "U+4EFB">>,  \* 適任
    <<"U+5411", "U+3044", "U+3066", "U+3044", "U+308B">>,  \* 向いている
    <<"U+5F97", "U+610F">>,  \* 得意
    <<"U+5C02", "U+9580">>,  \* 専門
    <<"U+8A73", "U+3057", "U+3044">>,  \* 詳しい
    <<"U+8A73", "U+3057", "U+304F">>,  \* 詳しく
    <<"U+8A73", "U+3057", "U+3044", "U+4EBA">>,  \* 詳しい人
    <<"U+5C02", "U+9580", "U+5BB6">>,  \* 専門家
    <<"U+30A8", "U+30AD", "U+30B9", "U+30D1", "U+30FC", "U+30C8">>,  \* エキスパート
    <<"U+30D9", "U+30C6", "U+30E9", "U+30F3">>,  \* ベテラン
    <<"U+82E5", "U+624B">>,  \* 若手
    <<"U+65B0", "U+4EBA">>,  \* 新人
    <<"U+4E2D", "U+5805">>,  \* 中堅
    <<"U+30B7", "U+30CB", "U+30A2">>,  \* シニア
    <<"U+30EA", "U+30FC", "U+30C0", "U+30FC">>,  \* リーダー
    <<"U+30DE", "U+30CD", "U+30FC", "U+30B8", "U+30E3", "U+30FC">>,  \* マネージャー
    <<"U+3067", "U+304D", "U+308B">>,  \* できる
    <<"U+53EF", "U+80FD">>,  \* 可能
    <<"U+5BFE", "U+5FDC">>,  \* 対応
    <<"U+5BFE", "U+5FDC", "U+53EF", "U+80FD">>,  \* 対応可能
    <<"U+5BFE", "U+5FDC", "U+3057", "U+3066", "U+3044", "U+308B">>,  \* 対応している
    <<"U+62C5", "U+5F53">>  \* 担当
  >>

(* Keyword list of isConversationalQuery (a different list from the classifier's). *)
scoringKeywords ==
  <<
    <<"U+304A", "U+3059", "U+3059", "U+3081">>,  \* おすすめ
    <<"U+63A8", "U+5968">>,  \* 推奨
    <<"U+9069", "U+4EFB">>,  \* 適任
    <<"U+5411", "U+3044", "U+3066", "U+3044", "U+308B">>,  \* 向いている
    <<"U+5F97", "U+610F">>,  \* 得意
    <<"U+5C02", "U+9580">>,  \* 専門
    <<"U+8A73", "U+3057", "U+3044">>,  \* 詳しい
    <<"U+8A73", "U+3057", "U+304F">>,  \* 詳しく
    <<"U+5C02", "U+9580", "U+5BB6">>,  \* 専門家
    <<"U+30A8", "U+30AD", "U+30B9", "U+30D1", "U+30FC", "U+30C8">>,  \* エキスパート
    <<"U+30D9", "U+30C6", "U+30E9", "U+30F3">>,  \* ベテラン
    <<"U+82E5", "U+624B">>,  \* 若手
    <<"U+65B0", "U+4EBA">>,  \* 新人
    <<"U+4E2D", "U+5805">>,  \* 中堅
    <<"U+30B7", "U+30CB", "U+30A2">>,  \* シニア
    <<"U+30EA", "U+30FC", "U+30C0", "U+30FC">>,  \* リーダー
    <<"U+30DE", "U+30CD", "U+30FC", "U+30B8", "U+30E3", "U+30FC">>,  \* マネージャー
    <<"U+3067", "U+304D", "U+308B">>,  \* できる
    <<"U+53EF", "U+80FD">>,  \* 可能
    <<"U+5BFE", "U+5FDC">>,  \* 対応
    <<"U+5BFE", "U+5FDC", "U+53EF", "U+80FD">>,  \* 対応可能
    <<"U+5BFE", "U+5FDC", "U+3057", "U+3066", "U+3044", "U+308B">>,  \* 対応している
    <<"U+62C5", "U+5F53">>,  \* 担当
    <<"U+30E1", "U+30F3", "U+30BF", "U+30FC">>,  \* メンター
    <<"U+6307", "U+5C0E">>,  \* 指導
    <<"U+6210", "U+9577">>,  \* 成長
    <<"U+512A", "U+79C0">>,  \* 優秀
    <<"U+7D4C", "U+9A13", "U+8C4A", "U+5BCC">>  \* 経験豊富
  >>

(* Skill keywords of detectAggregationQuery, in the order the loop tries them. *)
skillKeywords ==
  <<
    <<"p", "y", "t", "h", "o", "n">>,  \* python
    <<"j", "a", "v", "a", "s", "c", "r", "i", "p", "t">>,  \* javascript
    <<"j", "a", "v", "a">>,  \* java
    <<"r", "e", "a", "c", "t">>,  \* react
    <<"a", "w", "s">>,  \* aws
    <<"d", "o", "c", "k", "e", "r">>  \* docker
  >>

(* String literals of the handlers. *)
s_busho ==
  <<"U+90E8", "U+7F72">>  \* 部署
s_nannin ==
  <<"U+4F55", "U+4EBA">>  \* 何人
s_ninzuu ==
  <<"U+4EBA", "U+6570">>  \* 人数
s_yuushuu ==
  <<"U+512A", "U+79C0">>  \* 優秀
s_sukiru ==
  <<"U+30B9", "U+30AD", "U+30EB">>  \* スキル
s_gijutsu ==
  <<"U+6280", "U+8853">>  \* 技術
s_keiken ==
  <<"U+7D4C", "U+9A13">>  \* 経験
s_nensuu ==
  <<"U+5E74", "U+6570">>  \* 年数
s_nanigaaru ==
  <<"U+4F55", "U+304C", "U+3042", "U+308B">>  \* 何がある
s_osusume ==
  <<"U+304A", "U+3059", "U+3059", "U+3081">>  \* おすすめ
s_suishou ==
  <<"U+63A8", "U+5968">>  \* 推奨
s_tekinin ==
  <<"U+9069", "U+4EFB">>  \* 適任
s_senmon ==
  <<"U+5C02", "U+9580">>  \* 専門
s_ekisupaato ==
  <<"U+30A8", "U+30AD", "U+30B9", "U+30D1", "U+30FC", "U+30C8">>  \* エキスパート
s_kuwashii ==
  <<"U+8A73", "U+3057", "U+3044">>  \* 詳しい
s_mentaa ==
  <<"U+30E1", "U+30F3", "U+30BF", "U+30FC">>  \* メンター
s_shidou ==
  <<"U+6307", "U+5C0E">>  \* 指導
s_shinjin ==
  <<"U+65B0", "U+4EBA">>  \* 新人
s_wakate ==
  <<"U+82E5", "U+624B">>  \* 若手
s_beteran ==
  <<"U+30D9", "U+30C6", "U+30E9", "U+30F3">>  \* ベテラン
s_shinia ==
  <<"U+30B7", "U+30CB", "U+30A2">>  \* シニア
s_keikenhoufu ==
  <<"U+7D4C", "U+9A13", "U+8C4A", "U+5BCC">>  \* 経験豊富
s_fukusuu ==
  <<"U+8907", "U+6570">>  \* 複数
s_tayou ==
  <<"U+591A", "U+69D8">>  \* 多様
s_shikaku ==
  <<"U+8CC7", "U+683C">>  \* 資格
s_nintei ==
  <<"U+8A8D", "U+5B9A">>  \* 認定
s_kaihatsubu ==
  <<"U+958B", "U+767A", "U+90E8">>  \* 開発部
s_kaihatsu ==
  <<"U+958B", "U+767A">>  \* 開発
s_infura ==
  <<"U+30A4", "U+30F3", "U+30D5", "U+30E9">>  \* インフラ
s_infurabu ==
  <<"U+30A4", "U+30F3", "U+30D5", "U+30E9", "U+90E8">>  \* インフラ部
s_dezain ==
  <<"U+30C7", "U+30B6", "U+30A4", "U+30F3">>  \* デザイン
s_dezainbu ==
  <<"U+30C7", "U+30B6", "U+30A4", "U+30F3", "U+90E8">>  \* デザイン部
(***************************************************************************)
(* The records the model draws its corpora from.  A PersonInfo is the      *)
(* record of its seven fields; `missing` names the fields that are         *)
(* undefined at run time (initialize and search take whatever array the    *)
(* caller passes: the type is not enforced at run time).                   *)
(***************************************************************************)
\* 佐藤 / 開発部 / skills ['React', 'Python', 'AWS'] / qualifications ['基本情報'] / selfPR "開発 開発 開発" / experience "Web" / 3 years
Sato ==
  [name |-> <<"U+4F50", "U+85E4">>,
   department |-> <<"U+958B", "U+767A", "U+90E8">>,
   skills |-> <<<<"R", "e", "a", "c", "t">>, <<"P", "y", "t", "h", "o", "n">>, <<"A", "W", "S">>>>,
   qualifications |-> <<<<"U+57FA", "U+672C", "U+60C5", "U+5831">>>>,
   selfPR |-> <<"U+958B", "U+767A", " ", "U+958B", "U+767A", " ", "U+958B", "U+767A">>,
   experience |-> <<"W", "e", "b">>,
   yearsOfExperience |-> 3,
   missing |-> {}]

\* 鈴木 / デザイン部 / skills ['Figma'] / qualifications [] / selfPR "UI" / experience "" / 1 years
Suzuki ==
  [name |-> <<"U+9234", "U+6728">>,
   department |-> <<"U+30C7", "U+30B6", "U+30A4", "U+30F3", "U+90E8">>,
   skills |-> <<<<"F", "i", "g", "m", "a">>>>,
   qualifications |-> <<>>,
   selfPR |-> <<"U", "I">>,
   experience |-> <<>>,
   yearsOfExperience |-> 1,
   missing |-> {}]

\* 田中 / インフラ部 / skills [] / qualifications ['AWS認定'] / selfPR "おすすめ" / experience "運用" / 7 years
Tanaka ==
  [name |-> <<"U+7530", "U+4E2D">>,
   department |-> <<"U+30A4", "U+30F3", "U+30D5", "U+30E9", "U+90E8">>,
   skills |-> <<>>,
   qualifications |-> <<<<"A", "W", "S", "U+8A8D", "U+5B9A">>>>,
   selfPR |-> <<"U+304A", "U+3059", "U+3059", "U+3081">>,
   experience |-> <<"U+904B", "U+7528">>,
   yearsOfExperience |-> 7,
   missing |-> {}]

\* 加藤 / システム開発室 / skills ['Python'] / qualifications [] / selfPR "" / experience "" / 2 years
Kato ==
  [name |-> <<"U+52A0", "U+85E4">>,
   department |-> <<"U+30B7", "U+30B9", "U+30C6", "U+30E0", "U+958B", "U+767A", "U+5BA4">>,
   skills |-> <<<<"P", "y", "t", "h", "o", "n">>>>,
   qualifications |-> <<>>,
   selfPR |-> <<>>,
   experience |-> <<>>,
   yearsOfExperience |-> 2,
   missing |-> {}]

\* 山田 / 営業部 / skills [] / qualifications [] / selfPR "" / experience "" / 5 years; skills is undefined
Yamada ==
  [name |-> <<"U+5C71", "U+7530">>,
   department |-> <<"U+55B6", "U+696D", "U+90E8">>,
   skills |-> <<>>,
   qualifications |-> <<>>,
   selfPR |-> <<>>,
   experience |-> <<>>,
   yearsOfExperience |-> 5,
   missing |-> {"skills"}]

(***************************************************************************)
(* The queries the model draws from.                                       *)
(***************************************************************************)
Queries ==
  {
    <<>>,  \* ""
    <<" ">>,  \* " "
    <<"r", "e", "a", "c", "t">>,  \* "react"
    <<"R", "e", "a", "c", "t", "U+3067", "U+304D", "U+308B", "U+4EBA">>,  \* "Reactできる人"
    <<"U+958B", "U+767A">>,  \* "開発"
    <<"a", "w", "s">>,  \* "aws"
    <<"r", "e", "a", "c", "t", "U+30B9", "U+30AD", "U+30EB", "U+4F55", "U+4EBA">>,  \* "reactスキル何人"
    <<"U+958B", "U+767A", "U+90E8", "U+306F", "U+4F55", "U+4EBA">>,  \* "開発部は何人"
    <<"U+512A", "U+79C0">>,  \* "優秀"
    <<"U+90E8", "U+7F72", "U+306F", "U+4F55", "U+4EBA">>,  \* "部署は何人"
    <<"U+5E73", "U+5747">>,  \* "平均"
    <<"U+90E8", "U+7F72", "U+306F", "U+4F55", "U+304C", "U+3042", "U+308B">>,  \* "部署は何がある"
    <<"U+304A", "U+3059", "U+3059", "U+3081">>,  \* "おすすめ"
    <<"h", "e", "l", "l", "o">>,  \* "hello"
    <<"U+30D9", "U+30C6", "U+30E9", "U+30F3", "U+82E5", "U+624B", "U+8907", "U+6570", "U+8CC7", "U+683C", "U+958B", "U+767A">>,  \* "ベテラン若手複数資格開発"
    <<"U+7D4C", "U+9A13">>,  \* "経験"
    <<"U+304A", "U+3059", "U+3059", "U+3081", "U+306E", "r", "e", "a", "c", "t">>,  \* "おすすめのreact"
    <<"r", "e", "a", "c", "t", "U+306E", "U+304A", "U+3059", "U+3059", "U+3081">>,  \* "reactのおすすめ"
    <<"U+6BD4", "U+8F03">>,  \* "比較"
    <<"U+4E00", "U+89A7">>,  \* "一覧"
    <<"U+30D9", "U+30C6", "U+30E9", "U+30F3", "U+82E5", "U+624B">>,  \* "ベテラン若手"
    <<"U+55B6", "U+696D", "U+90E8">>,  \* "営業部"
    <<"f", "i", "g", "m", "a", "U+306E", "U+5E73", "U+5747">>,  \* "figmaの平均"
    <<"U+90E8", "U+7F72", "U+306E", "U+512A", "U+79C0">>,  \* "部署の優秀"
    <<"r", "e", "a", "c", "t", " ", "f", "i", "g", "m", "a", " ", "U+30A4", "U+30F3", "U+30D5", "U+30E9", "U+90E8">>,  \* "react figma インフラ部"
    <<"U+30A4", "U+30F3", "U+30D5", "U+30E9", "U+306F", "U+4F55", "U+4EBA">>,  \* "インフラは何人"
    <<"r", "e", "a", "c", "t", "U+306E", "U+30D9", "U+30C6", "U+30E9", "U+30F3">>,  \* "reactのベテラン"
    <<"U+30C7", "U+30B6", "U+30A4", "U+30F3", "U+306E", "U+4EBA", "U+6570">>  \* "デザインの人数"
  }
Corpus(n) == [i \in 1..n |-> <<Tanaka, Suzuki, Sato>>[((i - 1) % 3) + 1]]

\* The arrays initialize is called with: every array of at most MaxPersons
\* well-formed records, the longer arrays Tanaka, Suzuki, Sato, Tanaka, ... of
\* up to MaxCorpus records, arrays holding the record with no skills field, and
\* arrays holding the record of a department named after 開発 that is not 開発部.
Corpora ==
  UNION { [1..n -> {Sato, Suzuki, Tanaka}] : n \in 0..MaxPersons }
  \cup { Corpus(n) : n \in (MaxPersons + 1)..MaxCorpus }
  \cup { <<Yamada>>, <<Sato, Yamada>>, <<Yamada, Sato>> }
  \cup { <<Kato>>, <<Sato, Kato>> }

(***************************************************************************)
(* Chunker: createChunks.                                                  *)
(***************************************************************************)
\* ChunksOfPerson with the skills chunk pushed for every record
ChunksOfPersonAlwaysSkills(person, personIndex) ==
  LET metadata == [department |-> person.department,
                   skills |-> person.skills,
                   qualifications |-> person.qualifications,
                   yearsOfExperience |-> person.yearsOfExperience]
      Chunk(chunkType, content) ==
        [id |-> <<personIndex, chunkType>>,
         content |-> content,
         personId |-> personIndex,
         personName |-> person.name,
         chunkType |-> chunkType,
         metadata |-> metadata]
  IN  <<Chunk("basic",
              person.name \o <<"U+306F">> \o person.department
                \o <<"U+306B", "U+6240", "U+5C5E", "U+3057", "U+3066", "U+3044", "U+307E", "U+3059", "U+3002">> \o person.selfPR)>>
      \o <<Chunk("skills",
                       person.name \o <<"U+306E", "U+30B9", "U+30AD", "U+30EB", ":", " ">> \o Join(person.skills, <<",", " ">>))>>
      \o (IF person.experience # << >>
          THEN <<Chunk("experience",
                       person.name \o <<"U+306E", "U+958B", "U+767A", "U+7D4C", "U+9A13", ":", " ">> \o person.experience \o <<"U+FF08">>
                         \o NumberToString(person.yearsOfExperience) \o <<"U+5E74", "U+FF09">>)>>
          ELSE << >>)
      \o (IF Len(person.qualifications) > 0
          THEN <<Chunk("qualifications",
                       person.name \o <<"U+306E", "U+8CC7", "U+683C", ":", " ">>
                         \o Join(person.qualifications, <<",", " ">>))>>
          ELSE << >>)

\* the chunks createChunks pushes for persons[personIndex], personIndex from 0
ChunksOfPerson(person, personIndex) ==
  LET metadata == [department |-> person.department,
                   skills |-> person.skills,
                   qualifications |-> person.qualifications,
                   yearsOfExperience |-> person.yearsOfExperience]
      Chunk(chunkType, content) ==
        [id |-> <<personIndex, chunkType>>,
         content |-> content,
         personId |-> personIndex,
         personName |-> person.name,
         chunkType |-> chunkType,
         metadata |-> metadata]
  IN  <<Chunk("basic",
              person.name \o <<"U+306F">> \o person.department
                \o <<"U+306B", "U+6240", "U+5C5E", "U+3057", "U+3066", "U+3044", "U+307E", "U+3059", "U+3002">> \o person.selfPR)>>
      \o (IF Len(person.skills) > 0
          THEN <<Chunk("skills",
                       person.name \o <<"U+306E", "U+30B9", "U+30AD", "U+30EB", ":", " ">> \o Join(person.skills, <<",", " ">>))>>
          ELSE << >>)
      \o (IF person.experience # << >>
          THEN <<Chunk("experience",
                       person.name \o <<"U+306E", "U+958B", "U+767A", "U+7D4C", "U+9A13", ":", " ">> \o person.experience \o <<"U+FF08">>
                         \o NumberToString(person.yearsOfExperience) \o <<"U+5E74", "U+FF09">>)>>
          ELSE << >>)
      \o (IF Len(person.qualifications) > 0
          THEN <<Chunk("qualifications",
                       person.name \o <<"U+306E", "U+8CC7", "U+683C", ":", " ">>
                         \o Join(person.qualifications, <<",", " ">>))>>
          ELSE << >>)

\* person.skills.length of an undefined skills raises a TypeError
CreateChunksThrows(ps) == \E i \in DOMAIN ps : "skills" \in ps[i].missing

CreateChunks(ps) == Concat([i \in DOMAIN ps |-> ChunksOfPerson(ps[i], i - 1)])

(***************************************************************************)
(* Calls.  The engine is synchronous and single-threaded: a call runs to   *)
(* its end before the next one starts.  `call` holds the outcome of the    *)
(* call that has just run until its caller takes it.                       *)
(***************************************************************************)
Idle == [op |-> "idle"]

\* the page before it is mounted: the engine is used on its own
PageUnmounted ==
  /\ apiKeySet = FALSE
  /\ pagePersons = << >>
  /\ chatHistory = << >>
  /\ isChatLoading = FALSE
  /\ storedChat = << >>
  /\ requests = << >>

\* the engine after construction
EngineInit ==
  /\ persons = << >>
  /\ chunks = << >>
  /\ call = Idle

Init == EngineInit /\ PageUnmounted

\* initialize(persons): this.persons is assigned before createChunks runs, so
\* a createChunks that throws leaves the new persons with the old chunks.
\* initialize that pushes onto the chunks it already holds
InitializeAppending(ps) ==
  /\ call = Idle
  /\ persons' = ps
  /\ chunks' = IF CreateChunksThrows(ps) THEN chunks ELSE chunks \o CreateChunks(ps)
  /\ call' = [op |-> "initialize", threw |-> CreateChunksThrows(ps)]
  /\ UNCHANGED pageVars

Initialize(ps) ==
  /\ call = Idle
  /\ persons' = ps
  /\ chunks' = IF CreateChunksThrows(ps) THEN chunks ELSE CreateChunks(ps)
  /\ call' = [op |-> "initialize", threw |-> CreateChunksThrows(ps)]
  /\ UNCHANGED pageVars

\* the caller takes the outcome of the call (results are transient)
Return ==
  /\ call # Idle
  /\ call' = Idle
  /\ UNCHANGED <<persons, chunks, pageVars>>

(***************************************************************************)
(* Array helpers.                                                          *)
(***************************************************************************)
\* Array.prototype.some over a list of keywords: s.includes(keyword)
SomeIncluded(keywords, s) == \E k \in DOMAIN keywords : Includes(s, keywords[k])

\* [...new Set(list)]: the distinct elements, in order of first occurrence
Unique(list) ==
  LET first == {i \in DOMAIN list : \A j \in 1..(i - 1) : list[j] # list[i]}
      Nth(k) == CHOOSE i \in first : Cardinality({j \in first : j < i}) = k - 1
  IN  [k \in 1..Cardinality(first) |-> list[Nth(k)]]

\* Array.prototype.sort with a comparator that puts list[j] before list[i]
\* when <<j, i>> \in before; the sort is stable
StableSort(list, before) ==
  LET Position(i) ==
        1 + Cardinality({j \in DOMAIN list :
                           \/ <<j, i>> \in before
                           \/ (<<i, j>> \notin before /\ j < i)})
  IN  [k \in DOMAIN list |-> list[CHOOSE i \in DOMAIN list : Position(i) = k]]

\* Array.prototype.slice(0, n)
Slice(list, n) == SubSeq(list, 1, IF Len(list) < n THEN Len(list) ELSE n)

RECURSIVE SumOver(_, _)
SumOver(f, S) ==
  IF S = {} THEN 0
  ELSE LET x == CHOOSE y \in S : TRUE IN f[x] + SumOver(f, S \ {x})

(***************************************************************************)
(* Query classifier: analyzeQueryType.                                     *)
(***************************************************************************)
\* AnalyzeQueryType with the conversational tier checked before the exact tier
AnalyzeQueryTypeConversationalFirst(query) ==
  LET queryLower == ToLowerCase(query)
  IN  IF SomeIncluded(conversationalKeywords, queryLower) THEN "general_question"
      ELSE IF SomeIncluded(exactKeywords, queryLower) THEN "exact_search"
      ELSE IF SomeIncluded(analyticalKeywords, queryLower) THEN "analytical"
      ELSE IF SomeIncluded(generalKeywords, queryLower) THEN "general_question"
      ELSE "fuzzy_search"

\* AnalyzeQueryType with the analytical tier checked before the exact tier
AnalyzeQueryTypeAnalyticalFirst(query) ==
  LET queryLower == ToLowerCase(query)
  IN  IF SomeIncluded(analyticalKeywords, queryLower) THEN "analytical"
      ELSE IF SomeIncluded(exactKeywords, queryLower) THEN "exact_search"
      ELSE IF SomeIncluded(conversationalKeywords, queryLower) THEN "general_question"
      ELSE IF SomeIncluded(generalKeywords, queryLower) THEN "general_question"
      ELSE "fuzzy_search"

AnalyzeQueryType(query) ==
  LET queryLower == ToLowerCase(query)
  IN  IF SomeIncluded(exactKeywords, queryLower) THEN "exact_search"
      ELSE IF SomeIncluded(conversationalKeywords, queryLower) THEN "general_question"
      ELSE IF SomeIncluded(analyticalKeywords, queryLower) THEN "analytical"
      ELSE IF SomeIncluded(generalKeywords, queryLower) THEN "general_question"
      ELSE "fuzzy_search"

(***************************************************************************)
(* Aggregator: detectAggregationQuery.                                     *)
(***************************************************************************)
\* no aggregation (null / undefined)
NoAggregation == [type |-> "none"]

\* the count aggregation of the records whose department contains `token`
DepartmentCount(token, department) ==
  LET count == Cardinality({i \in DOMAIN persons :
                              Includes(persons[i].department, token)})
  IN  [type |-> "count",
       value |-> count,
       description |-> department \o <<"U+306B", "U+6240", "U+5C5E", "U+3057", "U+3066", "U+3044", "U+308B", "U+4EBA", "U+306F">>
                         \o NumberToString(count) \o <<"U+4EBA", "U+3067", "U+3059", "U+3002">>,
       details |-> [department |-> department, count |-> count,
                    total |-> Len(persons)]]

SkillCount(skill) ==
  LET count == Cardinality({i \in DOMAIN persons :
                   \E s \in DOMAIN persons[i].skills :
                      Includes(ToLowerCase(persons[i].skills[s]), skill)})
  IN  [type |-> "count",
       value |-> count,
       description |-> skill \o <<"U+30B9", "U+30AD", "U+30EB", "U+3092", "U+6301", "U+3064", "U+4EBA", "U+306F">>
                         \o NumberToString(count) \o <<"U+4EBA", "U+3067", "U+3059", "U+3002">>,
       details |-> [skill |-> skill, count |-> count, total |-> Len(persons)]]

\* the branch of detectAggregationQuery the query takes
AggregationBranch(query) ==
  LET queryLower == ToLowerCase(query)
      howMany == Includes(queryLower, s_nannin) \/ Includes(queryLower, s_ninzuu)
  IN  IF howMany /\ Includes(queryLower, s_kaihatsubu) THEN "kaihatsu"
      ELSE IF howMany /\ Includes(queryLower, s_infura) THEN "infura"
      ELSE IF howMany /\ Includes(queryLower, s_dezain) THEN "dezain"
      ELSE IF /\ Includes(queryLower, s_sukiru)
              /\ Includes(queryLower, s_nannin)
              /\ SomeIncluded(skillKeywords, queryLower) THEN "skill"
      ELSE "none"

\* p.skills.some of an undefined skills raises a TypeError
DetectAggregationQueryThrows(query) ==
  /\ AggregationBranch(query) = "skill"
  /\ \E i \in DOMAIN persons : "skills" \in persons[i].missing

DetectAggregationQuery(query) ==
  LET queryLower == ToLowerCase(query)
      branch == AggregationBranch(query)
  IN  CASE branch = "kaihatsu" -> DepartmentCount(s_kaihatsu, s_kaihatsubu)
        [] branch = "infura" -> DepartmentCount(s_infura, s_infurabu)
        [] branch = "dezain" -> DepartmentCount(s_dezain, s_dezainbu)
        [] branch = "skill" ->
             SkillCount(skillKeywords[
               CHOOSE k \in DOMAIN skillKeywords :
                 /\ Includes(queryLower, skillKeywords[k])
                 /\ \A j \in 1..(k - 1) : ~Includes(queryLower, skillKeywords[j])])
        [] OTHER -> NoAggregation

(***************************************************************************)
(* Retrieval scorer: performSearch and what it calls.                      *)
(***************************************************************************)
Zero == Frac(0, 1)

\* a record with an undefined skills raises a TypeError at `of person.skills`
\* unless the department check has returned before
CheckExactMatchThrows(query, person) ==
  /\ "skills" \in person.missing
  /\ ~Includes(query, ToLowerCase(person.department))

CheckPartialMatch(query, person) ==
  IF \/ Includes(ToLowerCase(person.department), query)
     \/ Includes(query, ToLowerCase(person.department))
     \/ \E s \in DOMAIN person.skills :
          \/ Includes(ToLowerCase(person.skills[s]), query)
          \/ Includes(query, ToLowerCase(person.skills[s]))
     \/ \E q \in DOMAIN person.qualifications :
          \/ Includes(ToLowerCase(person.qualifications[q]), query)
          \/ Includes(query, ToLowerCase(person.qualifications[q]))
  THEN Frac(64, 100)  \* 0.8
  ELSE Zero

\* CheckExactMatch comparing the skills without lowering their case
CheckExactMatchCaseSensitive(query, person) ==
  IF \/ Includes(query, ToLowerCase(person.department))
     \/ \E s \in DOMAIN person.skills : Includes(query, person.skills[s])
     \/ \E q \in DOMAIN person.qualifications :
          Includes(query, ToLowerCase(person.qualifications[q]))
     \/ Includes(query, ToLowerCase(person.name))
  THEN Frac(1, 1)
  ELSE IF RelLess(Frac(49, 100), CheckPartialMatch(query, person))
       THEN CheckPartialMatch(query, person)
       ELSE Zero

CheckExactMatch(query, person) ==
  IF \/ Includes(query, ToLowerCase(person.department))
     \/ \E s \in DOMAIN person.skills :
          Includes(query, ToLowerCase(person.skills[s]))
     \/ \E q \in DOMAIN person.qualifications :
          Includes(query, ToLowerCase(person.qualifications[q]))
     \/ Includes(query, ToLowerCase(person.name))
  THEN Frac(1, 1)  \* 1.0
  ELSE IF RelLess(Frac(49, 100), CheckPartialMatch(query, person))  \* > 0.7
       THEN CheckPartialMatch(query, person)
       ELSE Zero

\* the three sums of the allWords loop of calculateCosineSimilarity
CosineSums(query, text) ==
  LET queryWords == SplitWords(query)
      textWords == SplitWords(text)
      QueryFreq(w) == Cardinality({i \in DOMAIN queryWords :
                                     ToLowerCase(queryWords[i]) = w})
      TextFreq(w) == Cardinality({i \in DOMAIN textWords :
                                    ToLowerCase(textWords[i]) = w})
      allWords == {ToLowerCase(queryWords[i]) : i \in DOMAIN queryWords}
                    \cup {ToLowerCase(textWords[i]) : i \in DOMAIN textWords}
  IN  [dotProduct |-> SumOver([w \in allWords |-> QueryFreq(w) * TextFreq(w)], allWords),
       queryMagnitude |-> SumOver([w \in allWords |-> QueryFreq(w) * QueryFreq(w)], allWords),
       textMagnitude |-> SumOver([w \in allWords |-> TextFreq(w) * TextFreq(w)], allWords)]

\* the square of the quotient, as an exact fraction
CalculateCosineSimilarity(query, text) ==
  LET sums == CosineSums(query, text)
  IN  IF Len(SplitWords(query)) = 0 \/ Len(SplitWords(text)) = 0 THEN Zero
      ELSE IF sums.queryMagnitude = 0 \/ sums.textMagnitude = 0 THEN Zero
      ELSE Frac(sums.dotProduct * sums.dotProduct,
                sums.queryMagnitude * sums.textMagnitude)

\* dotProduct / (Math.sqrt(queryMagnitude) * Math.sqrt(textMagnitude)) is
\* evaluated in IEEE 754 double precision: each square root and the product
\* are rounded, so the quotient of two parallel frequency vectors is not
\* always 1.  These are the triples <<dotProduct, queryMagnitude,
\* textMagnitude>> with magnitudes up to 12 whose quotient is
\* 1.0000000000000002 (sqrt(3) * sqrt(3) is 2.9999999999999996); every other
\* triple in that range gives a quotient of at most 1.
RoundsAboveOne ==
  {<<3, 3, 3>>, <<6, 3, 12>>, <<6, 6, 6>>, <<6, 12, 3>>, <<12, 12, 12>>}

\* calculateCosineSimilarity applied to two texts: the exact value, the value
\* with the arguments exchanged, and whether the double exceeds 1
CalculateCosineSimilarityCall ==
  /\ call = Idle
  /\ \E query, text \in {<< >>, <<",">>, <<"a">>, <<"a", " ", "b">>, <<"b", " ", "a">>, <<"A", " ", "b">>, <<"a", " ", "a", " ", "b">>,
                         <<"a", " ", "b", " ", "c">>, <<"c", " ", "b", " ", "a">>} :
       \E sums \in {CosineSums(query, text)} :
         call' = [op |-> "calculateCosineSimilarity",
                  query |-> query, text |-> text,
                  similarity |-> CalculateCosineSimilarity(query, text),
                  exchanged |-> CalculateCosineSimilarity(text, query),
                  aboveOne |-> /\ SplitWords(query) # << >>
                               /\ SplitWords(text) # << >>
                               /\ <<sums.dotProduct, sums.queryMagnitude,
                                     sums.textMagnitude>> \in RoundsAboveOne]
  /\ UNCHANGED <<persons, chunks, pageVars>>

DetermineMatchType(query, person, relevance) ==
  IF ~RelLess(relevance, Frac(1, 1)) THEN "exact"
  ELSE IF Includes(query, ToLowerCase(person.name)) THEN "exact"
  ELSE IF Includes(query, ToLowerCase(person.department)) THEN "exact"
  ELSE IF \E s \in DOMAIN person.skills :
            Includes(query, ToLowerCase(person.skills[s])) THEN "exact"
  ELSE IF \E q \in DOMAIN person.qualifications :
            Includes(query, ToLowerCase(person.qualifications[q])) THEN "exact"
  ELSE IF RelLess(Frac(36, 100), relevance) THEN "similar"  \* > 0.6
  ELSE "category"

GenerateExplanation(query, person, matchedChunks, relevance) ==
  IF RelLess(Frac(64, 100), relevance) THEN <<"U+975E", "U+5E38", "U+306B", "U+9AD8", "U+3044", "U+95A2", "U+9023", "U+6027">>  \* > 0.8
  ELSE IF RelLess(Frac(36, 100), relevance) THEN <<"U+9AD8", "U+3044", "U+95A2", "U+9023", "U+6027">>  \* > 0.6
  ELSE IF RelLess(Frac(16, 100), relevance) THEN <<"U+4E2D", "U+7A0B", "U+5EA6", "U+306E", "U+95A2", "U+9023", "U+6027">>  \* > 0.4
  ELSE <<"U+4F4E", "U+3044", "U+95A2", "U+9023", "U+6027">>

IsConversationalQuery(query) == SomeIncluded(scoringKeywords, query)

\* person.skills.length of an undefined skills raises a TypeError
CalculateConversationalScoreThrows(query, person) ==
  /\ "skills" \in person.missing
  /\ Includes(query, s_fukusuu) \/ Includes(query, s_tayou)

\* ConversationalTenths with one increment for every record of at most 3 years
\* when the query holds a junior term
ConversationalTenthsFlatJunior(query, person) ==
  (IF \/ Includes(query, s_beteran) \/ Includes(query, s_shinia)
      \/ Includes(query, s_keikenhoufu)
   THEN IF person.yearsOfExperience >= 5 THEN 3
        ELSE IF person.yearsOfExperience >= 3 THEN 2 ELSE 0
   ELSE 0)
  + (IF Includes(query, s_wakate) \/ Includes(query, s_shinjin)
     THEN IF person.yearsOfExperience <= 3 THEN 3 ELSE 0
     ELSE 0)
  + (IF /\ Includes(query, s_fukusuu) \/ Includes(query, s_tayou)
        /\ Len(person.skills) >= 3 THEN 2 ELSE 0)
  + (IF /\ Includes(query, s_shikaku) \/ Includes(query, s_nintei)
        /\ Len(person.qualifications) > 0 THEN 2 ELSE 0)
  + (IF Includes(query, s_kaihatsu) /\ Includes(person.department, s_kaihatsu)
     THEN 3 ELSE 0)
  + (IF Includes(query, s_infura) /\ Includes(person.department, s_infura)
     THEN 3 ELSE 0)
  + (IF Includes(query, s_dezain) /\ Includes(person.department, s_dezain)
     THEN 3 ELSE 0)

\* the score, in tenths
ConversationalTenths(query, person) ==
  (IF \/ Includes(query, s_beteran) \/ Includes(query, s_shinia)
      \/ Includes(query, s_keikenhoufu)
   THEN IF person.yearsOfExperience >= 5 THEN 3
        ELSE IF person.yearsOfExperience >= 3 THEN 2 ELSE 0
   ELSE 0)
  + (IF Includes(query, s_wakate) \/ Includes(query, s_shinjin)
     THEN IF person.yearsOfExperience <= 2 THEN 3
          ELSE IF person.yearsOfExperience <= 3 THEN 2 ELSE 0
     ELSE 0)
  + (IF /\ Includes(query, s_fukusuu) \/ Includes(query, s_tayou)
        /\ Len(person.skills) >= 3 THEN 2 ELSE 0)
  + (IF /\ Includes(query, s_shikaku) \/ Includes(query, s_nintei)
        /\ Len(person.qualifications) > 0 THEN 2 ELSE 0)
  + (IF Includes(query, s_kaihatsu) /\ Includes(person.department, s_kaihatsu)
     THEN 3 ELSE 0)
  + (IF Includes(query, s_infura) /\ Includes(person.department, s_infura)
     THEN 3 ELSE 0)
  + (IF Includes(query, s_dezain) /\ Includes(person.department, s_dezain)
     THEN 3 ELSE 0)

CalculateConversationalScore(query, person) ==
  Tenths(ConversationalTenths(query, person))

\* the chunks performSearch filters for persons[personIndex], personIndex from 0
ChunksWithPersonId(personIndex) ==
  SelectSeq(chunks, LAMBDA chunk : chunk.personId = personIndex)

\* the chunks whose similarity to the query is above the threshold 0.05
SimilarChunks(queryLower, personIndex) ==
  SelectSeq(ChunksWithPersonId(personIndex),
            LAMBDA chunk :
              RelLess(Frac(1, 400),
                      CalculateCosineSimilarity(queryLower, ToLowerCase(chunk.content))))

RECURSIVE MaxSimilarity(_, _)
\* Math.max folded over the similar chunks, from 0
MaxSimilarity(queryLower, similar) ==
  IF similar = << >> THEN Zero
  ELSE RelMax(MaxSimilarity(queryLower, SubSeq(similar, 1, Len(similar) - 1)),
              CalculateCosineSimilarity(
                queryLower, ToLowerCase(similar[Len(similar)].content)))

\* ScorePerson with the chunk similarities computed for every record and
\* maximised with the exact match
ScorePersonMaxOfAllSteps(queryLower, i) ==
  LET person == persons[i]
      exactMatch == CheckExactMatch(queryLower, person)
      similar == SimilarChunks(queryLower, i - 1)
      first == RelMax(exactMatch, MaxSimilarity(queryLower, similar))
      maxRelevance ==
        IF IsConversationalQuery(queryLower)
        THEN RelMax(first, CalculateConversationalScore(queryLower, person))
        ELSE first
      matchedChunks == IF RelLess(Zero, exactMatch)
                       THEN ChunksWithPersonId(i - 1) ELSE similar
  IN  [person |-> person,
       ref |-> i,  \* which object of persons `person` refers to
       relevance |-> maxRelevance,
       matchedChunks |-> matchedChunks,
       explanation |-> GenerateExplanation(queryLower, person, matchedChunks,
                                           maxRelevance),
       matchType |-> DetermineMatchType(queryLower, person, maxRelevance)]

\* maxRelevance after the exact and partial match or, when that found
\* nothing, after the cosine similarities of the chunks
FirstMatch(queryLower, exactMatch, similar) ==
  IF RelLess(Zero, exactMatch) THEN exactMatch
  ELSE MaxSimilarity(queryLower, similar)

\* maxRelevance after the conversational score
MaxWithConversational(queryLower, person, first) ==
  IF IsConversationalQuery(queryLower)
  THEN RelMax(first, CalculateConversationalScore(queryLower, person))
  ELSE first

\* matchedChunks of the pass of the person of index personIndex
MatchedChunks(personIndex, exactMatch, similar) ==
  IF RelLess(Zero, exactMatch) THEN ChunksWithPersonId(personIndex) ELSE similar

\* the SearchResult pushed for persons[i]
ScoredResult(queryLower, i, maxRelevance, matchedChunks) ==
  [person |-> persons[i],
   ref |-> i,  \* which object of persons `person` refers to
   relevance |-> maxRelevance,
   matchedChunks |-> matchedChunks,
   explanation |-> GenerateExplanation(queryLower, persons[i], matchedChunks,
                                       maxRelevance),
   matchType |-> DetermineMatchType(queryLower, persons[i], maxRelevance)]

\* the pass of persons[i], from its exact match and its similar chunks
ScorePersonFrom(queryLower, i, exactMatch, similar) ==
  ScoredResult(queryLower, i,
               MaxWithConversational(queryLower, persons[i],
                                     FirstMatch(queryLower, exactMatch, similar)),
               MatchedChunks(i - 1, exactMatch, similar))

\* one pass of the forEach of performSearch: maxRelevance and matchedChunks
\* of persons[i] (i from 1; the source's personIndex is i - 1)
ScorePerson(queryLower, i) ==
  ScorePersonFrom(queryLower, i, CheckExactMatch(queryLower, persons[i]),
                  SimilarChunks(queryLower, i - 1))

\* the results array before the sort: the records with maxRelevance > 0
ScoredResults(queryLower) ==
  SelectSeq([i \in DOMAIN persons |-> ScorePerson(queryLower, i)],
            LAMBDA result : RelLess(Zero, result.relevance))

\* performSearch has no try/catch: an exception in one pass ends the forEach
PerformSearchThrows(query) ==
  \E i \in DOMAIN persons :
     \/ CheckExactMatchThrows(ToLowerCase(query), persons[i])
     \/ /\ IsConversationalQuery(ToLowerCase(query))
        /\ CalculateConversationalScoreThrows(ToLowerCase(query), persons[i])

\* SortByRelevance without the sort
SortByRelevanceUnsorted(results) == results

\* results.sort((a, b) => b.relevance - a.relevance)
SortByRelevance(results) ==
  StableSort(results,
             {pair \in (DOMAIN results) \X (DOMAIN results) :
                RelLess(results[pair[2]].relevance, results[pair[1]].relevance)})

\* PerformSearch without the slice(0, 5)
PerformSearchUncapped(query) ==
  SortByRelevance(ScoredResults(ToLowerCase(query)))

PerformSearch(query) ==
  Slice(SortByRelevance(ScoredResults(ToLowerCase(query))), 5)

(***************************************************************************)
(* Aggregator: statistics and their formatters.                            *)
(***************************************************************************)
\* push(...person.skills) of an undefined skills raises a TypeError
AnalyzeDepartmentsThrows == \E i \in DOMAIN persons : "skills" \in persons[i].missing

\* counts and skills are objects keyed by department; they are held as the
\* list of their entries in insertion order (Object.entries)
AnalyzeDepartments ==
  LET departments == Unique([i \in DOMAIN persons |-> persons[i].department])
      Members(dept) == SelectSeq(persons, LAMBDA p : p.department = dept)
  IN  [counts |-> [k \in DOMAIN departments |->
                     [key |-> departments[k],
                      value |-> Len(Members(departments[k]))]],
       skills |-> [k \in DOMAIN departments |->
                     [key |-> departments[k],
                      value |-> Concat([m \in DOMAIN Members(departments[k]) |->
                                          Members(departments[k])[m].skills])]],
       total |-> Len(persons)]

\* person.skills.forEach of an undefined skills raises a TypeError
AnalyzeSkillsThrows == \E i \in DOMAIN persons : "skills" \in persons[i].missing

AnalyzeSkills ==
  LET skills == Unique(Concat([i \in DOMAIN persons |-> persons[i].skills]))
      Holders(skill) ==
        SelectSeq(persons, LAMBDA p : \E s \in DOMAIN p.skills : p.skills[s] = skill)
  IN  [counts |-> [k \in DOMAIN skills |->
                     [key |-> skills[k],
                      \* a record listing a skill twice counts twice
                      value |-> SumOver([i \in DOMAIN persons |->
                                  Cardinality({s \in DOMAIN persons[i].skills :
                                                 persons[i].skills[s] = skills[k]})],
                                  DOMAIN persons)]],
       departments |-> [k \in DOMAIN skills |->
                          [key |-> skills[k],
                           value |-> Unique([h \in DOMAIN Holders(skills[k]) |->
                                               Holders(skills[k])[h].department])]],
       total |-> Len(persons)]

\* average, max and min are held in tenths of a year; over no record the
\* source computes NaN, -Infinity and Infinity
AnalyzeExperience ==
  LET years == [i \in DOMAIN persons |-> persons[i].yearsOfExperience]
      sum == SumOver(years, DOMAIN persons)
      n == Len(persons)
  IN  IF n = 0
      THEN [average |-> "NaN", max |-> "-Infinity", min |-> "Infinity", total |-> 0]
      ELSE [average |-> (20 * sum + n) \div (2 * n),  \* Math.round(average * 10)
            max |-> CHOOSE y \in {years[i] : i \in DOMAIN years} :
                      \A i \in DOMAIN years : years[i] <= y,
            min |-> CHOOSE y \in {years[i] : i \in DOMAIN years} :
                      \A i \in DOMAIN years : years[i] >= y,
            total |-> n]

\* Object.entries(counts).sort((a, b) => b[1] - a[1])
SortByCount(entries) ==
  StableSort(entries,
             {pair \in (DOMAIN entries) \X (DOMAIN entries) :
                entries[pair[1]].value > entries[pair[2]].value})

\* topDept[0] of an undefined topDept raises a TypeError
FormatDepartmentAnalysisThrows(stats, query) ==
  Includes(query, s_yuushuu) /\ stats.counts = << >>

FormatDepartmentAnalysis(stats, query) ==
  <<"U+90E8", "U+7F72", "U+5225", "U+306E", "U+5206", "U+6790", "U+7D50", "U+679C", "U+FF1A", "\n", "\n">>
  \o Concat([k \in DOMAIN stats.counts |->
       stats.counts[k].key \o <<":", " ">> \o NumberToString(stats.counts[k].value)
         \o <<"U+4EBA", "\n", " ", " ", "U+4E3B", "U+306A", "U+30B9", "U+30AD", "U+30EB", ":", " ">>
         \o Join(Slice(Unique(stats.skills[k].value), 3), <<",", " ">>) \o <<"\n", "\n">>])
  \o (IF Includes(query, s_yuushuu)
      THEN <<"U+6700", "U+3082", "U+4EBA", "U+6570", "U+304C", "U+591A", "U+3044", "U+90E8", "U+7F72", "U+306F">> \o SortByCount(stats.counts)[1].key \o <<"U+FF08">>
             \o NumberToString(SortByCount(stats.counts)[1].value) \o <<"U+4EBA", "U+FF09", "U+3067", "U+3059", "U+3002">>
      ELSE << >>)

\* topSkill[0] of an undefined topSkill raises a TypeError
FormatSkillAnalysisThrows(stats, query) ==
  Includes(query, s_yuushuu) /\ stats.counts = << >>

FormatSkillAnalysis(stats, query) ==
  LET sortedSkills == SortByCount(stats.counts)
      Departments(skill) ==
        stats.departments[CHOOSE k \in DOMAIN stats.departments :
                            stats.departments[k].key = skill].value
  IN  <<"U+30B9", "U+30AD", "U+30EB", "U+5225", "U+306E", "U+5206", "U+6790", "U+7D50", "U+679C", "U+FF1A", "\n", "\n">>
      \o Concat([k \in DOMAIN Slice(sortedSkills, 5) |->
           sortedSkills[k].key \o <<":", " ">> \o NumberToString(sortedSkills[k].value)
             \o <<"U+4EBA", "U+304C", "U+4FDD", "U+6709", "\n", " ", " ", "U+90E8", "U+7F72", ":", " ">>
             \o Join(Departments(sortedSkills[k].key), <<",", " ">>) \o <<"\n", "\n">>])
      \o (IF Includes(query, s_yuushuu)
          THEN <<"U+6700", "U+3082", "U+591A", "U+304F", "U+306E", "U+4EBA", "U+304C", "U+4FDD", "U+6709", "U+3057", "U+3066", "U+3044", "U+308B", "U+30B9", "U+30AD", "U+30EB", "U+306F">> \o sortedSkills[1].key \o <<"U+FF08">>
                 \o NumberToString(sortedSkills[1].value) \o <<"U+4EBA", "U+FF09", "U+3067", "U+3059", "U+3002">>
          ELSE << >>)

\* `${x}` of a number of tenths: 35 is "3.5", 30 is "3"
TenthsToString(t) ==
  IF t % 10 = 0 THEN NumberToString(t \div 10)
  ELSE NumberToString(t \div 10) \o <<".">> \o NumberToString(t % 10)

FormatExperienceAnalysis(stats, query) ==
  LET empty == stats.total = 0
  IN  <<"U+7D4C", "U+9A13", "U+5E74", "U+6570", "U+306E", "U+5206", "U+6790", "U+7D50", "U+679C", "U+FF1A", "\n", "\n">>
      \o <<"U+5E73", "U+5747", "U+7D4C", "U+9A13", "U+5E74", "U+6570", ":", " ">>
      \o (IF empty THEN <<"N", "a", "N">> ELSE TenthsToString(stats.average)) \o <<"U+5E74", "\n">>
      \o <<"U+6700", "U+9AD8", "U+7D4C", "U+9A13", "U+5E74", "U+6570", ":", " ">>
      \o (IF empty THEN <<"-", "I", "n", "f", "i", "n", "i", "t", "y">> ELSE NumberToString(stats.max)) \o <<"U+5E74", "\n">>
      \o <<"U+6700", "U+4F4E", "U+7D4C", "U+9A13", "U+5E74", "U+6570", ":", " ">>
      \o (IF empty THEN <<"I", "n", "f", "i", "n", "i", "t", "y">> ELSE NumberToString(stats.min)) \o <<"U+5E74", "\n">>
      \o <<"U+7DCF", "U+4EBA", "U+6570", ":", " ">> \o NumberToString(stats.total) \o <<"U+4EBA", "\n", "\n">>
      \o (IF Includes(query, s_yuushuu)
          THEN <<"U+5E73", "U+5747", "U+4EE5", "U+4E0A", "U+306E", "U+7D4C", "U+9A13", "U+3092", "U+6301", "U+3064", "U+4EBA", "U+306F">>
                 \o NumberToString(
                      IF empty THEN 0
                      ELSE Len(SelectSeq(persons,
                             LAMBDA p : p.yearsOfExperience * 10 >= stats.average)))
                 \o <<"U+4EBA", "U+3067", "U+3059", "U+3002">>
          ELSE << >>)

\* person.skills.length of an undefined skills raises a TypeError
FindTopPerformersThrows == \E i \in DOMAIN persons : "skills" \in persons[i].missing

\* FindTopPerformers without the sort
FindTopPerformersUnsorted ==
  LET scoredPersons ==
        [i \in DOMAIN persons |->
           [person |-> persons[i],
            ref |-> i,
            relevance |-> Tenths(3 * Len(persons[i].skills)
                                 + 2 * Len(persons[i].qualifications)
                                 + persons[i].yearsOfExperience),
            matchedChunks |-> << >>,
            explanation |-> <<"U+30B9", "U+30AD", "U+30EB", ":", " ">> \o NumberToString(Len(persons[i].skills))
                             \o <<"U+500B", ",", " ", "U+8CC7", "U+683C", ":", " ">>
                             \o NumberToString(Len(persons[i].qualifications))
                             \o <<"U+500B", ",", " ", "U+7D4C", "U+9A13", ":", " ">>
                             \o NumberToString(persons[i].yearsOfExperience) \o <<"U+5E74">>,
            matchType |-> "similar"]]
  IN  Slice(scoredPersons, 3)

\* totalScore is 0.3 * skills + 0.2 * qualifications + 0.1 * years: in tenths,
\* 3 * skills + 2 * qualifications + years
FindTopPerformers ==
  LET scoredPersons ==
        [i \in DOMAIN persons |->
           [person |-> persons[i],
            ref |-> i,
            relevance |-> Tenths(3 * Len(persons[i].skills)
                                 + 2 * Len(persons[i].qualifications)
                                 + persons[i].yearsOfExperience),
            matchedChunks |-> << >>,
            explanation |-> <<"U+30B9", "U+30AD", "U+30EB", ":", " ">> \o NumberToString(Len(persons[i].skills))
                             \o <<"U+500B", ",", " ", "U+8CC7", "U+683C", ":", " ">>
                             \o NumberToString(Len(persons[i].qualifications))
                             \o <<"U+500B", ",", " ", "U+7D4C", "U+9A13", ":", " ">>
                             \o NumberToString(persons[i].yearsOfExperience) \o <<"U+5E74">>,
            matchType |-> "similar"]]
  IN  Slice(SortByRelevance(scoredPersons), 3)

GetUniqueDepartments == Unique([i \in DOMAIN persons |-> persons[i].department])

\* flatMap leaves an undefined skills as one undefined element, which join
\* renders as the empty string
GetUniqueSkills ==
  Unique(Concat([i \in DOMAIN persons |->
                   IF "skills" \in persons[i].missing THEN << << >> >>
                   ELSE persons[i].skills]))

(***************************************************************************)
(* Query orchestrator: the handlers and search.                            *)
(***************************************************************************)
\* EscalateIfEmpty that hands the results back without ever escalating
EscalateNever(results, queryType) ==
  [results |-> results,
   aggregation |-> NoAggregation,
   queryType |-> queryType,
   shouldUseGemini |-> FALSE]

\* what handleExactSearch and handleFuzzySearch return for the results of
\* performSearch: shouldUseGemini is results.length === 0
EscalateIfEmpty(results, queryType) ==
  [results |-> results,
   aggregation |-> NoAggregation,
   queryType |-> queryType,
   shouldUseGemini |-> Len(results) = 0]

HandleExactSearchThrows(query) == PerformSearchThrows(query)

\* HandleExactSearch that never escalates
HandleExactSearchNeverEscalates(query) ==
  [results |-> PerformSearch(query),
   aggregation |-> NoAggregation,
   queryType |-> "exact_search",
   shouldUseGemini |-> FALSE]

HandleExactSearch(query) ==
  EscalateIfEmpty(PerformSearch(query), "exact_search")

HandleFuzzySearchThrows(query) == PerformSearchThrows(query)

\* HandleFuzzySearch that never escalates
HandleFuzzySearchNeverEscalates(query) ==
  [results |-> PerformSearch(query),
   aggregation |-> NoAggregation,
   queryType |-> "fuzzy_search",
   shouldUseGemini |-> FALSE]

HandleFuzzySearch(query) ==
  EscalateIfEmpty(PerformSearch(query), "fuzzy_search")

\* the branch of the if / else-if chain of handleAnalyticalQuery
AnalyticalBranch(query) ==
  LET queryLower == ToLowerCase(query)
  IN  IF /\ Includes(queryLower, s_busho)
         /\ Includes(queryLower, s_nannin) \/ Includes(queryLower, s_yuushuu)
      THEN "departments"
      ELSE IF Includes(queryLower, s_sukiru) \/ Includes(queryLower, s_gijutsu)
      THEN "skills"
      ELSE IF Includes(queryLower, s_keiken) \/ Includes(queryLower, s_nensuu)
      THEN "experience"
      ELSE IF Includes(queryLower, s_yuushuu) THEN "topPerformers"
      ELSE "none"

HandleAnalyticalQueryThrows(query) ==
  LET queryLower == ToLowerCase(query)
      branch == AnalyticalBranch(query)
  IN  \/ /\ branch = "departments"
         /\ \/ AnalyzeDepartmentsThrows
            \/ FormatDepartmentAnalysisThrows(AnalyzeDepartments, queryLower)
      \/ /\ branch = "skills"
         /\ \/ AnalyzeSkillsThrows
            \/ FormatSkillAnalysisThrows(AnalyzeSkills, queryLower)
      \/ /\ branch = "topPerformers"
         /\ FindTopPerformersThrows

\* HandleAnalyticalQuery that escalates whether or not it has an aggregation
HandleAnalyticalQueryAlwaysEscalates(query) ==
  LET queryLower == ToLowerCase(query)
      branch == AnalyticalBranch(query)
      Statistics(stats, description) ==
        [type |-> "statistics", value |-> stats,
         description |-> description, details |-> stats]
      aggregation ==
        CASE branch = "departments" ->
               Statistics(AnalyzeDepartments,
                          FormatDepartmentAnalysis(AnalyzeDepartments, queryLower))
          [] branch = "skills" ->
               Statistics(AnalyzeSkills,
                          FormatSkillAnalysis(AnalyzeSkills, queryLower))
          [] branch = "experience" ->
               Statistics(AnalyzeExperience,
                          FormatExperienceAnalysis(AnalyzeExperience, queryLower))
          [] OTHER -> NoAggregation
  IN  IF branch = "topPerformers"
      THEN [results |-> FindTopPerformers,
            aggregation |-> NoAggregation,
            queryType |-> "analytical",
            shouldUseGemini |-> FALSE]
      ELSE [results |-> << >>,
            aggregation |-> aggregation,
            queryType |-> "analytical",
            shouldUseGemini |-> TRUE]

HandleAnalyticalQuery(query) ==
  LET queryLower == ToLowerCase(query)
      branch == AnalyticalBranch(query)
      Statistics(stats, description) ==
        [type |-> "statistics", value |-> stats,
         description |-> description, details |-> stats]
      aggregation ==
        CASE branch = "departments" ->
               Statistics(AnalyzeDepartments,
                          FormatDepartmentAnalysis(AnalyzeDepartments, queryLower))
          [] branch = "skills" ->
               Statistics(AnalyzeSkills,
                          FormatSkillAnalysis(AnalyzeSkills, queryLower))
          [] branch = "experience" ->
               Statistics(AnalyzeExperience,
                          FormatExperienceAnalysis(AnalyzeExperience, queryLower))
          [] OTHER -> NoAggregation
  IN  IF branch = "topPerformers"
      THEN [results |-> FindTopPerformers,
            aggregation |-> NoAggregation,
            queryType |-> "analytical",
            shouldUseGemini |-> FALSE]
      ELSE [results |-> << >>,
            aggregation |-> aggregation,
            queryType |-> "analytical",
            shouldUseGemini |-> aggregation = NoAggregation]

\* the branch of the chain of ifs of handleGeneralQuestion
GeneralBranch(query) ==
  LET queryLower == ToLowerCase(query)
  IN  IF Includes(queryLower, s_busho) /\ Includes(queryLower, s_nanigaaru)
      THEN "departments"
      ELSE IF Includes(queryLower, s_sukiru) \/ Includes(queryLower, s_gijutsu)
      THEN "skills"
      ELSE IF \/ Includes(queryLower, s_osusume) \/ Includes(queryLower, s_suishou)
              \/ Includes(queryLower, s_tekinin)
              \/ Includes(queryLower, s_senmon) \/ Includes(queryLower, s_ekisupaato)
              \/ Includes(queryLower, s_kuwashii)
              \/ Includes(queryLower, s_mentaa) \/ Includes(queryLower, s_shidou)
              \/ Includes(queryLower, s_shinjin)
              \/ Includes(queryLower, s_wakate) \/ Includes(queryLower, s_beteran)
              \/ Includes(queryLower, s_shinia)
      THEN "search"
      ELSE "none"

HandleGeneralQuestionThrows(query) ==
  GeneralBranch(query) = "search" /\ PerformSearchThrows(query)

\* HandleGeneralQuestion whose scorer branch escalates only without a result
HandleGeneralQuestionEscalatesIfEmpty(query) ==
  LET branch == GeneralBranch(query)
      List(value, description, details) ==
        [results |-> << >>,
         aggregation |-> [type |-> "list", value |-> value,
                          description |-> description, details |-> details],
         queryType |-> "general_question",
         shouldUseGemini |-> FALSE]
  IN  CASE branch = "departments" ->
             List(GetUniqueDepartments,
                  <<"U+5F53", "U+793E", "U+306B", "U+306F", "U+4EE5", "U+4E0B", "U+306E", "U+90E8", "U+7F72", "U+304C", "U+3042", "U+308A", "U+307E", "U+3059", "U+FF1A", "\n">> \o Join(GetUniqueDepartments, <<"\n">>),
                  [departments |-> GetUniqueDepartments])
        [] branch = "skills" ->
             List(GetUniqueSkills,
                  <<"U+793E", "U+54E1", "U+304C", "U+6301", "U+3063", "U+3066", "U+3044", "U+308B", "U+30B9", "U+30AD", "U+30EB", "U+306F", "U+4EE5", "U+4E0B", "U+306E", "U+901A", "U+308A", "U+3067", "U+3059", "U+FF1A", "\n">>
                    \o Join(GetUniqueSkills, <<"\n">>),
                  [skills |-> GetUniqueSkills])
        [] branch = "search" ->
             [results |-> PerformSearch(query),
              aggregation |-> NoAggregation,
              queryType |-> "general_question",
              shouldUseGemini |-> Len(PerformSearch(query)) = 0]
        [] OTHER ->
             [results |-> << >>,
              aggregation |-> NoAggregation,
              queryType |-> "general_question",
              shouldUseGemini |-> TRUE]

HandleGeneralQuestion(query) ==
  LET branch == GeneralBranch(query)
      List(value, description, details) ==
        [results |-> << >>,
         aggregation |-> [type |-> "list", value |-> value,
                          description |-> description, details |-> details],
         queryType |-> "general_question",
         shouldUseGemini |-> FALSE]
  IN  CASE branch = "departments" ->
             List(GetUniqueDepartments,
                  <<"U+5F53", "U+793E", "U+306B", "U+306F", "U+4EE5", "U+4E0B", "U+306E", "U+90E8", "U+7F72", "U+304C", "U+3042", "U+308A", "U+307E", "U+3059", "U+FF1A", "\n">> \o Join(GetUniqueDepartments, <<"\n">>),
                  [departments |-> GetUniqueDepartments])
        [] branch = "skills" ->
             List(GetUniqueSkills,
                  <<"U+793E", "U+54E1", "U+304C", "U+6301", "U+3063", "U+3066", "U+3044", "U+308B", "U+30B9", "U+30AD", "U+30EB", "U+306F", "U+4EE5", "U+4E0B", "U+306E", "U+901A", "U+308A", "U+3067", "U+3059", "U+FF1A", "\n">>
                    \o Join(GetUniqueSkills, <<"\n">>),
                  [skills |-> GetUniqueSkills])
        [] branch = "search" ->
             [results |-> PerformSearch(query),
              aggregation |-> NoAggregation,
              queryType |-> "general_question",
              shouldUseGemini |-> TRUE]
        [] OTHER ->
             [results |-> << >>,
              aggregation |-> NoAggregation,
              queryType |-> "general_question",
              shouldUseGemini |-> TRUE]

\* the handler the switch of search dispatches a query type to
HandlerOf(queryType) ==
  CASE queryType = "exact_search" -> "handleExactSearch"
    [] queryType = "fuzzy_search" -> "handleFuzzySearch"
    [] queryType = "analytical" -> "handleAnalyticalQuery"
    [] queryType = "general_question" -> "handleGeneralQuestion"
    [] OTHER -> "handleFuzzySearch"

HandlerThrows(handler, query) ==
  CASE handler = "handleExactSearch" -> HandleExactSearchThrows(query)
    [] handler = "handleFuzzySearch" -> HandleFuzzySearchThrows(query)
    [] handler = "handleAnalyticalQuery" -> HandleAnalyticalQueryThrows(query)
    [] handler = "handleGeneralQuestion" -> HandleGeneralQuestionThrows(query)

\* HandlerResult with the escalation flag set on every value
HandlerResultAlwaysEscalates(handler, query) ==
  [(CASE handler = "handleExactSearch" -> HandleExactSearch(query)
      [] handler = "handleFuzzySearch" -> HandleFuzzySearch(query)
      [] handler = "handleAnalyticalQuery" -> HandleAnalyticalQuery(query)
      [] handler = "handleGeneralQuestion" -> HandleGeneralQuestion(query))
   EXCEPT !.shouldUseGemini = TRUE]

HandlerResult(handler, query) ==
  CASE handler = "handleExactSearch" -> HandleExactSearch(query)
    [] handler = "handleFuzzySearch" -> HandleFuzzySearch(query)
    [] handler = "handleAnalyticalQuery" -> HandleAnalyticalQuery(query)
    [] handler = "handleGeneralQuestion" -> HandleGeneralQuestion(query)

\* SearchOutcome with the aggregation detection made only for the queries
\* that are not classified analytical (the dispatch comes first for those)
SearchOutcomeDispatchFirst(query) ==
  LET queryType == AnalyzeQueryType(query)
      handler == HandlerOf(queryType)
  IN  IF queryType # "analytical" /\ DetectAggregationQueryThrows(query)
      THEN [op |-> "search", query |-> query, threw |-> TRUE]
      ELSE IF queryType # "analytical" /\ DetectAggregationQuery(query) # NoAggregation
      THEN [op |-> "search", query |-> query, threw |-> FALSE,
            handler |-> "none",
            results |-> << >>,
            aggregation |-> DetectAggregationQuery(query),
            queryType |-> queryType,
            shouldUseGemini |-> FALSE]
      ELSE IF HandlerThrows(handler, query)
      THEN [op |-> "search", query |-> query, threw |-> TRUE]
      ELSE [op |-> "search", query |-> query, threw |-> FALSE,
            handler |-> handler] @@ HandlerResult(handler, query)

\* the outcome of search(query): the value the promise resolves to and the
\* handler that produced it ("none": search returned before its switch), or
\* threw when the promise rejects
SearchOutcome(query) ==
  LET queryType == AnalyzeQueryType(query)
      handler == HandlerOf(queryType)
  IN  IF DetectAggregationQueryThrows(query)
      THEN [op |-> "search", query |-> query, threw |-> TRUE]
      ELSE IF DetectAggregationQuery(query) # NoAggregation
      THEN [op |-> "search", query |-> query, threw |-> FALSE,
            handler |-> "none",
            results |-> << >>,
            aggregation |-> DetectAggregationQuery(query),
            queryType |-> queryType,
            shouldUseGemini |-> FALSE]
      ELSE IF HandlerThrows(handler, query)
      THEN [op |-> "search", query |-> query, threw |-> TRUE]
      ELSE [op |-> "search", query |-> query, threw |-> FALSE,
            handler |-> handler] @@ HandlerResult(handler, query)

\* search(query)
Search(query) ==
  /\ call = Idle
  /\ call' = SearchOutcome(query)
  /\ UNCHANGED <<persons, chunks, pageVars>>


(***************************************************************************)
(* Formatter: formatResults.                                               *)
(***************************************************************************)
\* the string formatResults returns for an empty results array
NoResultsMessage == <<"U+691C", "U+7D22", "U+6761", "U+4EF6", "U+306B", "U+4E00", "U+81F4", "U+3059", "U+308B", "U+7D50", "U+679C", "U+304C", "U+898B", "U+3064", "U+304B", "U+308A", "U+307E", "U+305B", "U+3093", "U+3067", "U+3057", "U+305F", "U+3002">>

\* person.skills.join of an undefined skills raises a TypeError; the map is
\* reached only without an aggregation and with a result
FormatResultsThrows(results, aggregation) ==
  /\ aggregation = NoAggregation
  /\ \E k \in DOMAIN results : "skills" \in results[k].person.missing

\* results.map(...).join('\n\n'): one numbered entry for each result
FormatResultList(results) ==
  Join([k \in DOMAIN results |->
          NumberToString(k) \o <<".", " ">> \o results[k].person.name
            \o <<"\n", " ", " ", " ", "U+90E8", "U+7F72", ":", " ">> \o results[k].person.department
            \o <<"\n", " ", " ", " ", "U+30B9", "U+30AD", "U+30EB", ":", " ">> \o Join(results[k].person.skills, <<",", " ">>)
            \o <<"\n", " ", " ", " ", "U+8CC7", "U+683C", ":", " ">>
            \o Join(results[k].person.qualifications, <<",", " ">>)
            \o <<"\n", " ", " ", " ", "U+7D4C", "U+9A13", ":", " ">> \o results[k].person.experience
            \o <<"\n", " ", " ", " ", "U+95A2", "U+9023", "U+6027", ":", " ">> \o results[k].explanation],
       <<"\n", "\n">>)

\* FormatResults with the test of results.length made before the test of
\* aggregation
FormatResultsEmptyFirst(results, aggregation) ==
  IF Len(results) = 0 THEN NoResultsMessage
  ELSE IF aggregation # NoAggregation THEN aggregation.description
  ELSE FormatResultList(results)

FormatResults(results, aggregation) ==
  IF aggregation # NoAggregation THEN aggregation.description
  ELSE IF Len(results) = 0 THEN NoResultsMessage
  ELSE FormatResultList(results)

\* the results arrays passed to formatResults: those the scorer returns over
\* the current store
FormatResultsInputs ==
  {PerformSearch(q) : q \in {r \in {<<"r", "e", "a", "c", "t">>, <<"U+55B6", "U+696D", "U+90E8">>, <<"h", "e", "l", "l", "o">>} :
                               ~PerformSearchThrows(r)}}

\* the aggregations passed to formatResults: none, a count and a list over
\* the current store
FormatAggregationInputs ==
  {NoAggregation,
   DetectAggregationQuery(<<"U+958B", "U+767A", "U+90E8", "U+306F", "U+4F55", "U+4EBA">>),
   HandleGeneralQuestion(<<"U+90E8", "U+7F72", "U+306F", "U+4F55", "U+304C", "U+3042", "U+308B">>).aggregation}

FormatInputs == FormatResultsInputs \X FormatAggregationInputs

\* formatResults(results, aggregation)
FormatResultsCall ==
  /\ call = Idle
  /\ \E input \in FormatInputs :
        call' = IF FormatResultsThrows(input[1], input[2])
                THEN [op |-> "formatResults", threw |-> TRUE,
                      results |-> input[1], aggregation |-> input[2]]
                ELSE [op |-> "formatResults", threw |-> FALSE,
                      results |-> input[1], aggregation |-> input[2],
                      value |-> FormatResults(input[1], input[2])]
  /\ UNCHANGED <<persons, chunks, pageVars>>

(***************************************************************************)
(* The page (HomePage) and searchPersonsWithGemini: the handlers of the    *)
(* chat, over the engine instance of gemini-api.ts.  A handler runs up to  *)
(* its first await on the network as one step; a request that waits for    *)
(* the generation stays pending until the reply or the timer settles the   *)
(* race of withTimeout.                                                    *)
(***************************************************************************)
\* the generation path is bounded by withTimeout(..., 30000)
TimeoutMs == 30000

\* the step of the model's clock
TickMs == TimeoutMs

NoPersonsMessage == <<"U+4EBA", "U+7269", "U+60C5", "U+5831", "U+304C", "U+767B", "U+9332", "U+3055", "U+308C", "U+3066", "U+3044", "U+307E", "U+305B", "U+3093", "U+3002", "U+307E", "U+305A", "U+30D5", "U+30A1", "U+30A4", "U+30EB", "U+3092", "U+30A2", "U+30C3", "U+30D7", "U+30ED", "U+30FC", "U+30C9", "U+3057", "U+3066", "U+304F", "U+3060", "U+3055", "U+3044", "U+3002">>

NoQueryMessage == <<"U+691C", "U+7D22", "U+30AF", "U+30A8", "U+30EA", "U+304C", "U+5165", "U+529B", "U+3055", "U+308C", "U+3066", "U+3044", "U+307E", "U+305B", "U+3093", "U+3002">>

SearchErrorMessage == <<"U+691C", "U+7D22", "U+4E2D", "U+306B", "U+30A8", "U+30E9", "U+30FC", "U+304C", "U+767A", "U+751F", "U+3057", "U+307E", "U+3057", "U+305F", "U+3002">>

GenerationErrorMessage == <<"U+5FDC", "U+7B54", "U+751F", "U+6210", "U+4E2D", "U+306B", "U+30A8", "U+30E9", "U+30FC", "U+304C", "U+767A", "U+751F", "U+3057", "U+307E", "U+3057", "U+305F", "U+3002">>

AnswerErrorMessage == <<"U+56DE", "U+7B54", "U+751F", "U+6210", "U+4E2D", "U+306B", "U+30A8", "U+30E9", "U+30FC", "U+304C", "U+767A", "U+751F", "U+3057", "U+307E", "U+3057", "U+305F", "U+3002">>

\* a text the generation returns
GeneratedText == <<"(", "g", "e", "n", "e", "r", "a", "t", "e", "d", ")">>

\* the arrays of records the page is mounted with
PageCorpora == {<< >>, <<Sato>>, <<Sato, Yamada>>}

\* the messages and examples the user sends
PageQueries == {<<" ">>, <<"r", "e", "a", "c", "t">>, <<"h", "e", "l", "l", "o">>}

\* message.trim() is empty
TrimIsEmpty(s) == \A k \in DOMAIN s : s[k] \in {" ", "\n", "U+3000"}

UserMessage(content) == [role |-> "user", content |-> content]

AssistantMessage(content) == [role |-> "assistant", content |-> content]

\* createPersonSummary reads p.skills.includes and p.skills.join
CreatePersonSummaryThrows(ps) ==
  \E i \in DOMAIN ps : "skills" \in ps[i].missing

\* searchPersonsWithGemini(query, ps) up to the call of search: "reply" with
\* the string it returns, or "search" when the engine was initialized with ps
SearchEntry(query, ps) ==
  IF ps = << >> THEN [kind |-> "reply", response |-> NoPersonsMessage]
  ELSE IF TrimIsEmpty(query) THEN [kind |-> "reply", response |-> NoQueryMessage]
  ELSE IF CreateChunksThrows(ps)
  THEN [kind |-> "reply", response |-> SearchErrorMessage]
  ELSE [kind |-> "search"]

\* searchPersonsWithGemini(query, ps) from the outcome of search to its return
\* or to the call of the generation: "reply" with the string it returns, or
\* "generate"
SearchStep(query, ps, outcome) ==
  IF outcome.threw
  THEN [kind |-> "reply", response |-> SearchErrorMessage]
  ELSE IF outcome.shouldUseGemini
  THEN IF CreatePersonSummaryThrows(ps)
       THEN [kind |-> "reply", response |-> AnswerErrorMessage]
       ELSE IF ~apiKeySet
       THEN [kind |-> "reply", response |-> GenerationErrorMessage]
       ELSE [kind |-> "generate"]
  ELSE IF FormatResultsThrows(outcome.results, outcome.aggregation)
  THEN [kind |-> "reply", response |-> SearchErrorMessage]
  ELSE [kind |-> "reply",
        response |-> FormatResults(outcome.results, outcome.aggregation)]

\* the engine after the initialize(ps) of searchPersonsWithGemini
EngineInitialized(query, ps) ==
  IF ps = << >> \/ TrimIsEmpty(query)
  THEN UNCHANGED <<persons, chunks>>
  ELSE /\ persons' = ps
       /\ chunks' = IF CreateChunksThrows(ps) THEN chunks ELSE CreateChunks(ps)

\* a handler call in the log of requests; passed is the list the handler gives
\* to searchPersonsWithGemini, scored holds the records and the chunks of the
\* engine when the search of the call was evaluated
Request(handler, query, outcome, response, captured) ==
  [handler |-> handler, query |-> query, outcome |-> outcome,
   response |-> response, elapsed |-> 0, captured |-> captured,
   generation |-> "none", passed |-> pagePersons, scored |-> << >>]

\* request r awaits the promise of search
Searching(r) == r \in DOMAIN requests /\ requests[r].outcome = "searching"

\* request r awaits the generation, in the race of withTimeout
Pending(r) == r \in DOMAIN requests /\ requests[r].outcome = "pending"

\* no continuation is ever ahead of the handlers and the timers
MicrotaskNeverQueued == FALSE

\* a continuation of a resolved promise is queued: it runs before any event
\* handler and before any timer
MicrotaskQueued ==
  \E r \in DOMAIN requests : Searching(r)

\* the test handleExampleClick makes before it shows a search result
ShowsExampleResult(response) ==
  /\ response # << >>
  /\ ~Includes(response, <<"U+8A72", "U+5F53", "U+3059", "U+308B", "U+4EBA", "U+7269", "U+304C", "U+898B", "U+3064", "U+304B", "U+308A", "U+307E", "U+305B", "U+3093", "U+3067", "U+3057", "U+305F">>)
  /\ ~Includes(response, <<"U+4EBA", "U+7269", "U+60C5", "U+5831", "U+304C", "U+767B", "U+9332", "U+3055", "U+308C", "U+3066", "U+3044", "U+307E", "U+305B", "U+3093">>)

\* the page after handleSendMessage received `response`: the functional
\* update appends the assistant message to the current history
SendReplied(history, response) ==
  /\ chatHistory' = Append(history, AssistantMessage(response))
  /\ isChatLoading' = FALSE
  /\ UNCHANGED storedChat

\* the page after handleExampleClick received `response`: the history the
\* handler captured when it was created, with the two messages, replaces the
\* current one, and the two messages are stored
ExampleReplied(example, captured, response) ==
  /\ IF ShowsExampleResult(response)
     THEN /\ chatHistory' = captured \o <<UserMessage(example),
                                          AssistantMessage(response)>>
          /\ storedChat' = storedChat \o <<UserMessage(example),
                                           AssistantMessage(response)>>
     ELSE UNCHANGED <<chatHistory, storedChat>>
  /\ UNCHANGED isChatLoading

\* the page after the handler of request `req` received `response`
Replied(req, response) ==
  IF req.handler = "send"
  THEN SendReplied(chatHistory, response)
  ELSE ExampleReplied(req.query, req.captured, response)

\* how a request that received `response` ends
Ended(handler, response) ==
  IF handler = "example" /\ ~ShowsExampleResult(response)
  THEN "suppressed" ELSE "replied"

\* handleSendMessage(message), up to its return or to its first await
HandleSendMessage(message) ==
  /\ ~MicrotaskQueued
  /\ Len(requests) < MaxRequests
  /\ UNCHANGED <<call, apiKeySet, pagePersons>>
  /\ IF TrimIsEmpty(message) \/ Len(pagePersons) = 0
     THEN /\ requests' = Append(requests,
                           Request("send", message, "ignored", << >>, << >>))
          /\ UNCHANGED <<persons, chunks, chatHistory, isChatLoading, storedChat>>
     ELSE IF ~apiKeySet
     THEN /\ chatHistory' = Append(chatHistory, UserMessage(message))
          /\ isChatLoading' = FALSE
          /\ requests' = Append(requests,
                           Request("send", message, "unavailable", << >>, << >>))
          /\ UNCHANGED <<persons, chunks, storedChat>>
     ELSE /\ EngineInitialized(message, pagePersons)
          /\ LET entry == SearchEntry(message, pagePersons)
             IN  IF entry.kind = "reply"
                 THEN /\ SendReplied(Append(chatHistory, UserMessage(message)),
                                     entry.response)
                      /\ requests' = Append(requests,
                                       Request("send", message, "replied",
                                               entry.response, << >>))
                 ELSE /\ chatHistory' = Append(chatHistory, UserMessage(message))
                      /\ isChatLoading' = TRUE
                      /\ requests' = Append(requests,
                                       Request("send", message, "searching",
                                               << >>, << >>))
                      /\ UNCHANGED storedChat

\* handleExampleClick(example), up to its return or to its first await
HandleExampleClick(example) ==
  /\ ~MicrotaskQueued
  /\ Len(requests) < MaxRequests
  /\ UNCHANGED <<call, apiKeySet, pagePersons>>
  /\ IF Len(pagePersons) = 0 \/ ~apiKeySet
     THEN /\ requests' = Append(requests,
                           Request("example", example,
                                   IF Len(pagePersons) = 0 THEN "ignored"
                                   ELSE "unavailable",
                                   << >>, << >>))
          /\ UNCHANGED <<persons, chunks, chatHistory, isChatLoading, storedChat>>
     ELSE /\ EngineInitialized(example, pagePersons)
          /\ LET entry == SearchEntry(example, pagePersons)
             IN  IF entry.kind = "reply"
                 THEN /\ ExampleReplied(example, chatHistory, entry.response)
                      /\ requests' = Append(requests,
                                       Request("example", example,
                                               Ended("example", entry.response),
                                               entry.response, << >>))
                 ELSE /\ requests' = Append(requests,
                                       Request("example", example, "searching",
                                               << >>, chatHistory))
                      /\ UNCHANGED <<chatHistory, isChatLoading, storedChat>>

\* the promise of search resolved for request r: searchPersonsWithGemini goes
\* on to its return, or to the call of the generation
SearchResolves(r) ==
  /\ Searching(r)
  /\ \E step \in {SearchStep(requests[r].query, persons,
                              SearchOutcome(requests[r].query))} :
        IF step.kind = "reply"
        THEN /\ Replied(requests[r], step.response)
             /\ requests' = [requests EXCEPT
                               ![r].outcome = Ended(requests[r].handler,
                                                    step.response),
                               ![r].response = step.response,
                               ![r].scored = <<persons, chunks>>]
        ELSE /\ requests' = [requests EXCEPT ![r].outcome = "pending",
                                             ![r].scored = <<persons, chunks>>]
             /\ UNCHANGED <<chatHistory, isChatLoading, storedChat>>
  /\ UNCHANGED <<persons, chunks, call, apiKeySet, pagePersons>>

\* the generation called by request r settles before the timer: generateResponse
\* returns the text of the model, or its fixed string when the call failed
GenerationSettles(r, ok) ==
  /\ ~MicrotaskQueued
  /\ Pending(r)
  /\ requests[r].elapsed < TimeoutMs
  /\ LET response == IF ok THEN GeneratedText ELSE GenerationErrorMessage
         req == requests[r]
     IN  /\ Replied(req, response)
         /\ requests' = [requests EXCEPT
                           ![r].outcome = Ended(req.handler, response),
                           ![r].response = response,
                           ![r].generation = IF ok THEN "ok" ELSE "failed"]
  /\ UNCHANGED <<persons, chunks, call, apiKeySet, pagePersons>>

\* the timer of withTimeout rejects the race of request r: the catch block of
\* the handler logs the error, and finally clears the loading flag
TimerFires(r) ==
  /\ ~MicrotaskQueued
  /\ Pending(r)
  /\ requests[r].elapsed >= TimeoutMs
  /\ requests' = [requests EXCEPT ![r].outcome = "timeout"]
  /\ isChatLoading' = IF requests[r].handler = "send" THEN FALSE ELSE isChatLoading
  /\ UNCHANGED <<persons, chunks, call, apiKeySet, pagePersons, chatHistory,
                 storedChat>>

\* time passes while a generation is awaited and no timer is due
Tick ==
  /\ ~MicrotaskQueued
  /\ \E r \in DOMAIN requests : Pending(r)
  /\ \A r \in DOMAIN requests : Pending(r) => requests[r].elapsed < TimeoutMs
  /\ requests' = [r \in DOMAIN requests |->
                    IF Pending(r)
                    THEN [requests[r] EXCEPT !.elapsed = @ + TickMs]
                    ELSE requests[r]]
  /\ UNCHANGED <<persons, chunks, call, apiKeySet, pagePersons, chatHistory,
                 isChatLoading, storedChat>>

\* handleFileUpload(file), from the resolution of readFile on: the records
\* read from the file replace those of the page.  Uploads are followed while
\* a handler call can still be logged: a later one reaches no call.
HandleFileUpload(data) ==
  /\ ~MicrotaskQueued
  /\ Len(requests) < MaxRequests
  /\ pagePersons' = data
  /\ UNCHANGED <<persons, chunks, call, apiKeySet, chatHistory, isChatLoading,
                 storedChat, requests>>

\* handleClearChatHistory()
HandleClearChatHistory ==
  /\ ~MicrotaskQueued
  /\ chatHistory' = << >>
  /\ storedChat' = << >>
  /\ UNCHANGED <<persons, chunks, call, apiKeySet, pagePersons, isChatLoading,
                 requests>>

\* handleResetAllData()
HandleResetAllData ==
  /\ ~MicrotaskQueued
  /\ pagePersons' = << >>
  /\ chatHistory' = << >>
  /\ storedChat' = << >>
  /\ UNCHANGED <<persons, chunks, call, apiKeySet, isChatLoading, requests>>

\* the page after it is mounted: the records come from the storage, the chat
\* starts empty, and the engine of gemini-api.ts has just been constructed
PageInit ==
  /\ EngineInit
  /\ apiKeySet \in BOOLEAN
  /\ pagePersons \in PageCorpora
  /\ chatHistory = << >>
  /\ isChatLoading = FALSE
  /\ storedChat = << >>
  /\ requests = << >>

PageNext ==
  \/ \E message \in PageQueries : HandleSendMessage(message)
  \/ \E example \in PageQueries : HandleExampleClick(example)
  \/ \E r \in DOMAIN requests : SearchResolves(r)
  \/ \E r \in DOMAIN requests : \E ok \in BOOLEAN : GenerationSettles(r, ok)
  \/ \E r \in DOMAIN requests : TimerFires(r)
  \/ Tick
  \/ \E data \in {<<Suzuki>>} : HandleFileUpload(data)
  \/ HandleClearChatHistory
  \/ HandleResetAllData

PageSpec == PageInit /\ [][PageNext]_vars

(***************************************************************************)
(* Ingestion: the rows of an uploaded file to PersonInfo records, by       *)
(* readExcelFile and by parsePersonData of the CSV reader.  A file has the *)
(* two columns 氏名 and 部署; a cell is undefined or holds a text.          *)
(***************************************************************************)
RECURSIVE Trim(_)
\* String.prototype.trim
Trim(s) ==
  IF s = << >> THEN s
  ELSE IF Head(s) \in {" ", "\n", "U+3000"} THEN Trim(Tail(s))
  ELSE IF s[Len(s)] \in {" ", "\n", "U+3000"}
  THEN Trim(SubSeq(s, 1, Len(s) - 1))
  ELSE s

\* the data rows of the files read: up to MaxRows rows of a 氏名 cell and a
\* 部署 cell
IngestRows ==
  LET cells == {[defined |-> FALSE, text |-> << >>]}
                 \cup {[defined |-> TRUE, text |-> t] :
                         t \in {<< >>, <<" ">>, <<" ", "U+4F50", "U+85E4", " ">>}}
  IN  UNION {[1..n -> [name : cells, department : cells]] : n \in 0..MaxRows}

\* the persons array readExcelFile builds from the data rows: a row whose
\* cells are all empty is skipped, and an empty 氏名 or 部署 gets a placeholder
ReadExcelFile(rows) ==
  LET Text(cell) == IF cell.defined THEN Trim(cell.text) ELSE << >>
      kept == SelectSeq([i \in DOMAIN rows |-> i],
                        LAMBDA i : \/ Text(rows[i].name) # << >>
                                   \/ Text(rows[i].department) # << >>)
  IN  [k \in DOMAIN kept |->
         [name |-> IF Text(rows[kept[k]].name) # << >>
                   THEN Text(rows[kept[k]].name)
                   ELSE <<"U+672A", "U+8A2D", "U+5B9A">> \o NumberToString(kept[k]),
          department |-> IF Text(rows[kept[k]].department) # << >>
                         THEN Text(rows[kept[k]].department)
                         ELSE <<"U+672A", "U+8A2D", "U+5B9A">>,
          skills |-> << >>,
          qualifications |-> << >>,
          selfPR |-> <<"U+672A", "U+8A2D", "U+5B9A">>,
          experience |-> <<"U+672A", "U+8A2D", "U+5B9A">>,
          yearsOfExperience |-> 0,
          missing |-> {}]]

\* parsePersonData(csvData): a row whose 氏名 or 部署 is undefined or '' is
\* skipped; the others give a record with the two values trimmed
ParsePersonData(csvData) ==
  LET kept == SelectSeq(csvData,
                        LAMBDA row : /\ row.name.defined
                                     /\ row.name.text # << >>
                                     /\ row.department.defined
                                     /\ row.department.text # << >>)
  IN  [k \in DOMAIN kept |->
         [name |-> Trim(kept[k].name.text),
          department |-> Trim(kept[k].department.text),
          skills |-> << >>,
          qualifications |-> << >>,
          selfPR |-> << >>,
          experience |-> << >>,
          yearsOfExperience |-> 0,
          missing |-> {}]]

\* readExcelFile on a sheet of the rows `rows`: no record is a failure
ReadExcelFileCall ==
  /\ call = Idle
  /\ \E rows \in IngestRows :
        call' = [op |-> "readExcelFile", rows |-> rows,
                 success |-> Len(ReadExcelFile(rows)) > 0,
                 data |-> ReadExcelFile(rows)]
  /\ UNCHANGED <<persons, chunks, pageVars>>

\* parsePersonData on the rows papaparse returned for a file
ParsePersonDataCall ==
  /\ call = Idle
  /\ \E rows \in IngestRows :
        call' = [op |-> "parsePersonData", rows |-> rows, success |-> TRUE,
                 data |-> ParsePersonData(rows)]
  /\ UNCHANGED <<persons, chunks, pageVars>>

IngestNext == ReadExcelFileCall \/ ParsePersonDataCall \/ Return

IngestSpec == Init /\ [][IngestNext]_vars
Next ==
  \/ \E ps \in Corpora : Initialize(ps)
  \/ \E query \in Queries : Search(query)
  \/ FormatResultsCall
  \/ CalculateCosineSimilarityCall
  \/ Return

Spec == Init /\ [][Next]_vars

(***************************************************************************)
(* Properties of search.  `call` holds the outcome of the call in flight;  *)
(* persons and chunks are the ones the call ran against, since no other    *)
(* operation starts before Return.                                         *)
(***************************************************************************)
\* the promise of search resolved
Returned == call.op = "search" /\ ~call.threw

\* the results of the call are those of performSearch
ScorerRan ==
  /\ Returned
  /\ \/ call.handler \in {"handleExactSearch", "handleFuzzySearch"}
     \/ /\ call.handler = "handleGeneralQuestion"
        /\ GeneralBranch(call.query) = "search"

One == Frac(1, 1)

Range(list) == {list[k] : k \in DOMAIN list}

\* the query of the call contains, in any case, a skill of persons[i]
SkillInQuery(i) ==
  /\ "skills" \notin persons[i].missing
  /\ \E s \in DOMAIN persons[i].skills :
        Includes(ToLowerCase(call.query), ToLowerCase(persons[i].skills[s]))

\* persons[i] is in the results with relevance 1.0 and matchType exact
ExactAtOne(i) ==
  \E k \in DOMAIN call.results :
     /\ call.results[k].ref = i
     /\ call.results[k].relevance = One
     /\ call.results[k].matchType = "exact"

\* C1 as stated: whenever search returns, every record with a skill that the
\* query contains (in any case) is in the results with relevance exactly 1.0
\* and matchType exact
C1_SkillMatchAlwaysReturned ==
  Returned => \A i \in DOMAIN persons : SkillInQuery(i) => ExactAtOne(i)

\* C1 amended: when the results come from the scorer, every record with a
\* skill that the query contains is scored exact with relevance 1.0, or with
\* its conversational score when that is above 1.0, and is in the results
\* unless five records that score at least 1.0 fill them
C1_SkillMatchScoredExact ==
  ScorerRan =>
    \A i \in DOMAIN persons :
       SkillInQuery(i) =>
         \/ \E k \in DOMAIN call.results :
               /\ call.results[k].ref = i
               /\ call.results[k].matchType = "exact"
               /\ \/ call.results[k].relevance = One
                  \/ /\ RelLess(One, call.results[k].relevance)
                     /\ IsConversationalQuery(ToLowerCase(call.query))
                     /\ call.results[k].relevance =
                          CalculateConversationalScore(ToLowerCase(call.query),
                                                       persons[i])
         \/ /\ Len(call.results) = 5
            /\ \A k \in DOMAIN call.results :
                  ~RelLess(call.results[k].relevance, One)

\* a record whose skill is in the query in another case is returned at 1.0
C1_Witness ==
  /\ ScorerRan
  /\ \E i \in DOMAIN persons :
        /\ SkillInQuery(i)
        /\ ExactAtOne(i)
        /\ \A s \in DOMAIN persons[i].skills :
              ~Includes(call.query, persons[i].skills[s])

\* the lower-cased words of the contents of the chunks
ChunkWords ==
  UNION {Range(SplitWords(ToLowerCase(chunks[c].content))) : c \in DOMAIN chunks}

\* the query shares no word with the content of any chunk
NoTokenOverlap ==
  Range(SplitWords(ToLowerCase(call.query))) \cap ChunkWords = {}

NoAggregationDetected ==
  /\ ~DetectAggregationQueryThrows(call.query)
  /\ DetectAggregationQuery(call.query) = NoAggregation


\* the lower-cased department, skills and qualifications of a record
FieldsOf(person) ==
  {ToLowerCase(person.department)}
    \cup {ToLowerCase(person.skills[s]) : s \in DOMAIN person.skills}
    \cup {ToLowerCase(person.qualifications[q]) : q \in DOMAIN person.qualifications}

\* no department, skill or qualification contains the query or is contained
\* in it, and no name is contained in it
NoFieldMatch ==
  \A i \in DOMAIN persons :
     /\ ~Includes(ToLowerCase(call.query), ToLowerCase(persons[i].name))
     /\ \A f \in FieldsOf(persons[i]) :
           /\ ~Includes(ToLowerCase(call.query), f)
           /\ ~Includes(f, ToLowerCase(call.query))

\* the handler of the call computes no statistics, list or top performers
NoAnalysisBranch ==
  \/ call.queryType \in {"exact_search", "fuzzy_search"}
  \/ call.queryType = "analytical" /\ AnalyticalBranch(call.query) = "none"
  \/ /\ call.queryType = "general_question"
     /\ GeneralBranch(call.query) \in {"search", "none"}

\* C2 as stated: a query that shares no word with any chunk and matches no
\* aggregation pattern (of detectAggregationQuery or of a handler) gets empty
\* results and shouldUseGemini = true
C2_NoOverlapEscalates ==
  (Returned /\ NoTokenOverlap /\ NoAggregationDetected /\ NoAnalysisBranch)
    => call.results = << >> /\ call.shouldUseGemini

\* C2 amended: a query that shares no word with any chunk, matches no
\* aggregation pattern, neither contains nor is contained in a department, a
\* skill or a qualification, contains no name and no conversational scoring
\* term, and reaches no statistics, list or top-performer branch, gets empty
\* results and shouldUseGemini = true
C2_NoMatchEscalates ==
  (/\ Returned
   /\ NoTokenOverlap
   /\ NoAggregationDetected
   /\ NoFieldMatch
   /\ ~IsConversationalQuery(ToLowerCase(call.query))
   /\ NoAnalysisBranch)
    => call.results = << >> /\ call.shouldUseGemini

\* a non-empty corpus, none of whose records the query matches
C2_Witness ==
  /\ Returned
  /\ persons # << >>
  /\ chunks # << >>
  /\ call.query # << >>
  /\ NoTokenOverlap
  /\ NoAggregationDetected
  /\ NoFieldMatch
  /\ ~IsConversationalQuery(ToLowerCase(call.query))
  /\ NoAnalysisBranch
  /\ call.results = << >>
  /\ call.shouldUseGemini

\* C3: whenever detectAggregationQuery yields a result, search returns that
\* aggregation with empty results and shouldUseGemini = false, whatever the
\* classification, and no handler runs
C3_AggregationBeforeDispatch ==
  (/\ call.op = "search"
   /\ ~DetectAggregationQueryThrows(call.query)
   /\ DetectAggregationQuery(call.query) # NoAggregation)
    => /\ ~call.threw
       /\ call.handler = "none"
       /\ call.aggregation = DetectAggregationQuery(call.query)
       /\ call.results = << >>
       /\ ~call.shouldUseGemini
       /\ call.queryType = AnalyzeQueryType(call.query)

\* an aggregation returned for a query that is classified analytical
C3_Witness ==
  /\ Returned
  /\ call.queryType = "analytical"
  /\ call.handler = "none"
  /\ call.aggregation # NoAggregation
  /\ call.aggregation = DetectAggregationQuery(call.query)

\* C4: for a query classified exact_search or fuzzy_search with no
\* aggregation detected, the results are the scorer's and shouldUseGemini is
\* true exactly when they are empty
C4_ScorerEscalatesIffEmpty ==
  (/\ Returned
   /\ AnalyzeQueryType(call.query) \in {"exact_search", "fuzzy_search"}
   /\ NoAggregationDetected)
    => /\ call.results = PerformSearch(call.query)
       /\ call.queryType = AnalyzeQueryType(call.query)
       /\ call.aggregation = NoAggregation
       /\ call.shouldUseGemini <=> (Len(call.results) = 0)

\* an exact_search over a non-empty corpus that finds nothing and escalates
C4_Witness ==
  /\ Returned
  /\ persons # << >>
  /\ call.queryType = "exact_search"
  /\ call.handler = "handleExactSearch"
  /\ call.results = << >>
  /\ call.shouldUseGemini

\* C5: the classification is that of the first tier with a keyword in the
\* query, in the order exact, conversational, analytical, general, and
\* fuzzy_search when no tier has one; where the keywords stand in the query
\* and how many tiers hold a keyword make no difference
C5_FirstTierWins ==
  Returned =>
    LET q == ToLowerCase(call.query)
        exact == \E k \in DOMAIN exactKeywords : Includes(q, exactKeywords[k])
        conversational ==
          \E k \in DOMAIN conversationalKeywords :
             Includes(q, conversationalKeywords[k])
        analytical ==
          \E k \in DOMAIN analyticalKeywords : Includes(q, analyticalKeywords[k])
        general ==
          \E k \in DOMAIN generalKeywords : Includes(q, generalKeywords[k])
    IN  /\ exact => call.queryType = "exact_search"
        /\ (~exact /\ conversational) => call.queryType = "general_question"
        /\ (~exact /\ ~conversational /\ analytical)
             => call.queryType = "analytical"
        /\ (~exact /\ ~conversational /\ ~analytical /\ general)
             => call.queryType = "general_question"
        /\ (~exact /\ ~conversational /\ ~analytical /\ ~general)
             => call.queryType = "fuzzy_search"

\* a query that begins with a conversational keyword and holds an exact
\* keyword after it is classified exact_search
C5_Witness ==
  /\ Returned
  /\ call.queryType = "exact_search"
  /\ \E c \in DOMAIN conversationalKeywords :
        /\ Len(conversationalKeywords[c]) < Len(call.query)
        /\ SubSeq(ToLowerCase(call.query), 1, Len(conversationalKeywords[c]))
             = conversationalKeywords[c]
        /\ \E e \in DOMAIN exactKeywords :
              Includes(SubSeq(ToLowerCase(call.query),
                              Len(conversationalKeywords[c]) + 1,
                              Len(call.query)),
                       exactKeywords[e])

\* C6: the results of search have at most 5 entries, whatever the corpus and
\* the path through search
C6_AtMostFiveResults ==
  Returned => Len(call.results) <= 5

\* five results out of a corpus of more than five records that all score
C6_Witness ==
  /\ ScorerRan
  /\ Len(persons) > 5
  /\ Len(call.results) = 5
  /\ \A i \in DOMAIN persons :
        RelLess(Zero, ScorePerson(ToLowerCase(call.query), i).relevance)

\* persons[i] scores for the query of the call and is not in the results
CutOff(i) ==
  /\ RelLess(Zero, ScorePerson(ToLowerCase(call.query), i).relevance)
  /\ \A k \in DOMAIN call.results : call.results[k].ref # i

\* C7: the scorer's results are in order of relevance, highest first, and a
\* scoring record that the truncation cuts off has a relevance no greater
\* than that of any returned record
C7_ResultsOrdered ==
  ScorerRan =>
    /\ \A k \in 1..(Len(call.results) - 1) :
          ~RelLess(call.results[k].relevance, call.results[k + 1].relevance)
    /\ \A i \in DOMAIN persons :
          CutOff(i) =>
            \A k \in DOMAIN call.results :
               ~RelLess(call.results[k].relevance,
                        ScorePerson(ToLowerCase(call.query), i).relevance)

\* results of different relevance, in another order than the corpus, with a
\* scoring record cut off
C7_Witness ==
  /\ ScorerRan
  /\ Len(call.results) = 5
  /\ \E i \in DOMAIN persons : CutOff(i)
  /\ RelLess(call.results[5].relevance, call.results[1].relevance)
  /\ \E k \in 1..4 : call.results[k].ref > call.results[k + 1].ref

\* step 1: the query contains the department, a skill, a qualification or
\* the name of the record
ExactStep(q, person) ==
  \/ Includes(q, ToLowerCase(person.name))
  \/ \E f \in FieldsOf(person) : Includes(q, f)

\* step 2: the department, a skill or a qualification contains the query or
\* is contained in it
PartialStep(q, person) ==
  \E f \in FieldsOf(person) : Includes(f, q) \/ Includes(q, f)

\* step 3: the largest similarity above 0.05 of a chunk of persons[i]
CosineStep(q, i) == MaxSimilarity(q, SimilarChunks(q, i - 1))

\* step 4: the conversational score, for a conversational query
ConversationalStep(q, person) ==
  IF IsConversationalQuery(q) THEN CalculateConversationalScore(q, person)
  ELSE Zero

\* the maximum of the scores of the four steps for persons[i]
MaxOfSteps(q, i) ==
  RelMax(RelMax(IF ExactStep(q, persons[i]) THEN One ELSE Zero,
                IF PartialStep(q, persons[i]) THEN Tenths(8) ELSE Zero),
         RelMax(CosineStep(q, i), ConversationalStep(q, persons[i])))

\* the score of the first of steps 1 to 3 that applies to persons[i],
\* maximised with the score of step 4
FirstStepOrConversational(q, i) ==
  RelMax(IF ExactStep(q, persons[i]) THEN One
         ELSE IF PartialStep(q, persons[i]) THEN Tenths(8)
         ELSE CosineStep(q, i),
         ConversationalStep(q, persons[i]))

\* C8 as stated: the relevance of every returned record is the maximum of
\* the scores of the four steps
C8_RelevanceIsMaxOfSteps ==
  ScorerRan =>
    \A k \in DOMAIN call.results :
       call.results[k].relevance
         = MaxOfSteps(ToLowerCase(call.query), call.results[k].ref)

\* C8 amended: the relevance of a record is the score of the first of the
\* exact (1.0), partial (0.8) and cosine steps that applies, the cosine step
\* being skipped when an earlier one applies, maximised with the
\* conversational score and never added to it; a record is left out of the
\* results when that is 0 or when five records fill them
C8_RelevanceIsFirstStepOrConversational ==
  ScorerRan =>
    /\ \A k \in DOMAIN call.results :
          call.results[k].relevance
            = FirstStepOrConversational(ToLowerCase(call.query),
                                        call.results[k].ref)
    /\ \A i \in DOMAIN persons :
          (\A k \in DOMAIN call.results : call.results[k].ref # i)
            => \/ FirstStepOrConversational(ToLowerCase(call.query), i) = Zero
               \/ Len(call.results) = 5

\* a record returned at the 0.8 of its partial match although a chunk of it
\* is more similar to the query than that
C8_Witness ==
  /\ ScorerRan
  /\ \E k \in DOMAIN call.results :
        LET q == ToLowerCase(call.query)
            i == call.results[k].ref
        IN  /\ ~ExactStep(q, persons[i])
            /\ PartialStep(q, persons[i])
            /\ RelLess(Tenths(8), CosineStep(q, i))
            /\ call.results[k].relevance = Tenths(8)

\* the query is empty or made of white space only
Blank(query) ==
  \A k \in DOMAIN query : query[k] \in {" ", "\n", "U+3000"}

\* C9: over a corpus of well-formed records, an empty or blank query raises
\* no error and yields no result
C9_BlankQueryYieldsNothing ==
  (/\ call.op = "search"
   /\ Blank(call.query)
   /\ \A i \in DOMAIN persons : persons[i].missing = {})
    => ~call.threw /\ call.results = << >>

\* scoring persons[i] for the query q raises an exception
ScoringRaises(q, i) ==
  \/ CheckExactMatchThrows(q, persons[i])
  \/ IsConversationalQuery(q) /\ CalculateConversationalScoreThrows(q, persons[i])

\* the query of the call goes to performSearch
ScorerCalled ==
  /\ call.op = "search"
  /\ NoAggregationDetected
  /\ \/ AnalyzeQueryType(call.query) \in {"exact_search", "fuzzy_search"}
     \/ /\ AnalyzeQueryType(call.query) = "general_question"
        /\ GeneralBranch(call.query) = "search"

\* C10: when scoring one record raises an exception the search still
\* returns, with the other records that score among its results
C10_FailingRecordSkipped ==
  ScorerCalled =>
    /\ ~call.threw
    /\ \A i \in DOMAIN persons :
          (/\ ~ScoringRaises(ToLowerCase(call.query), i)
           /\ RelLess(Zero, ScorePerson(ToLowerCase(call.query), i).relevance))
            => \/ Len(call.results) = 5
               \/ \E k \in DOMAIN call.results : call.results[k].ref = i

\* C11: in every state in which a query can start, after any sequence of
\* initialize calls (a call that raises part-way included), the chunks are
\* those derived from the current record store
C11_ChunksDerivedFromStore ==
  call = Idle =>
    /\ ~CreateChunksThrows(persons)
    /\ chunks = CreateChunks(persons)

\* C14: over an empty record store (no record at initialize time, or an engine
\* never initialized) no query of any classification raises an exception
C14_EmptyCorpusNeverRaises ==
  (call.op = "search" /\ persons = << >>) => ~call.threw

\* C15: formatResults returns the description of the aggregation, unchanged,
\* whenever an aggregation is passed, whatever the results; without an
\* aggregation and with no result it returns the fixed no-results string
C15_AggregationPassesThrough ==
  call.op = "formatResults" =>
    /\ call.aggregation # NoAggregation
         => ~call.threw /\ call.value = call.aggregation.description
    /\ (call.aggregation = NoAggregation /\ call.results = << >>)
         => ~call.threw /\ call.value = NoResultsMessage

\* formatResults called with an aggregation and a non-empty results array
C15_Witness ==
  /\ call.op = "formatResults"
  /\ ~call.threw
  /\ call.aggregation # NoAggregation
  /\ call.results # << >>
  /\ call.value = call.aggregation.description

\* the query of the call asks how many (何人 or 人数)
AsksHowMany ==
  \/ Includes(ToLowerCase(call.query), <<"U+4F55", "U+4EBA">>)
  \/ Includes(ToLowerCase(call.query), <<"U+4EBA", "U+6570">>)

\* the count aggregation of a how-many query for the department named by
\* `token`: the number of records whose department contains the token, in a
\* description that mentions the token and the number
CountsDepartment(token) ==
  LET count == Cardinality({i \in DOMAIN persons :
                              Includes(persons[i].department, token)})
  IN  /\ call.aggregation # NoAggregation
      /\ call.aggregation.type = "count"
      /\ call.aggregation.value = count
      /\ Includes(call.aggregation.description, token)
      /\ Includes(call.aggregation.description, NumberToString(count))

\* C16: a how-many query that names a department (開発部, インフラ, デザイン)
\* returns a count aggregation whose value is the number of records whose
\* department contains that token and whose description mentions the
\* department and the number (the first of the three that the query names)
C16_DepartmentCount ==
  (Returned /\ AsksHowMany) =>
    LET q == ToLowerCase(call.query)
    IN  /\ Includes(q, <<"U+958B", "U+767A", "U+90E8">>) => CountsDepartment(<<"U+958B", "U+767A", "U+90E8">>)
        /\ (~Includes(q, <<"U+958B", "U+767A", "U+90E8">>) /\ Includes(q, <<"U+30A4", "U+30F3", "U+30D5", "U+30E9">>))
             => CountsDepartment(<<"U+30A4", "U+30F3", "U+30D5", "U+30E9">>)
        /\ (~Includes(q, <<"U+958B", "U+767A", "U+90E8">>) /\ ~Includes(q, <<"U+30A4", "U+30F3", "U+30D5", "U+30E9">>)
              /\ Includes(q, <<"U+30C7", "U+30B6", "U+30A4", "U+30F3">>))
             => CountsDepartment(<<"U+30C7", "U+30B6", "U+30A4", "U+30F3">>)

\* the call returned from the handler of the analytical queries
AnalyticalHandled ==
  /\ Returned
  /\ AnalyzeQueryType(call.query) = "analytical"
  /\ NoAggregationDetected

\* the call returned the statistics `stats` as an aggregation, with no
\* result and no escalation
ReturnsStatistics(stats) ==
  /\ call.aggregation # NoAggregation
  /\ call.aggregation.type = "statistics"
  /\ call.aggregation.value = stats
  /\ call.results = << >>
  /\ ~call.shouldUseGemini

\* C17: for an analytical query with no aggregation detected, the department,
\* skill or experience statistics that apply are returned as an aggregation
\* without escalation; otherwise a top-performer query returns the ranked
\* records without escalation; and the call escalates exactly when none of
\* these applies
C17_AnalyticalHandler ==
  AnalyticalHandled =>
    LET q == ToLowerCase(call.query)
        departments == /\ Includes(q, <<"U+90E8", "U+7F72">>)
                       /\ Includes(q, <<"U+4F55", "U+4EBA">>) \/ Includes(q, <<"U+512A", "U+79C0">>)
        skills == Includes(q, <<"U+30B9", "U+30AD", "U+30EB">>) \/ Includes(q, <<"U+6280", "U+8853">>)
        experience == Includes(q, <<"U+7D4C", "U+9A13">>) \/ Includes(q, <<"U+5E74", "U+6570">>)
        top == Includes(q, <<"U+512A", "U+79C0">>)
    IN  /\ call.queryType = "analytical"
        /\ departments => ReturnsStatistics(AnalyzeDepartments)
        /\ (~departments /\ skills) => ReturnsStatistics(AnalyzeSkills)
        /\ (~departments /\ ~skills /\ experience)
             => ReturnsStatistics(AnalyzeExperience)
        /\ (~departments /\ ~skills /\ ~experience /\ top)
             => /\ call.results = FindTopPerformers
                /\ call.aggregation = NoAggregation
                /\ ~call.shouldUseGemini
        /\ call.shouldUseGemini
             <=> ~(departments \/ skills \/ experience \/ top)
        /\ call.shouldUseGemini
             => call.results = << >> /\ call.aggregation = NoAggregation

\* department statistics returned without escalation for an analytical
\* query over a corpus of several departments
C17_Witness ==
  /\ AnalyticalHandled
  /\ ReturnsStatistics(AnalyzeDepartments)
  /\ Len(AnalyzeDepartments.counts) > 1

\* the call returned from the handler of the general questions
GeneralHandled ==
  /\ Returned
  /\ AnalyzeQueryType(call.query) = "general_question"
  /\ NoAggregationDetected

\* the call returned the list `value` as an aggregation, with no result and
\* no escalation
ReturnsList(value) ==
  /\ call.aggregation # NoAggregation
  /\ call.aggregation.type = "list"
  /\ call.aggregation.value = value
  /\ call.results = << >>
  /\ ~call.shouldUseGemini

\* the query holds a recommendation, expertise, mentoring or seniority term
SubIntent(q) ==
  \E term \in {<<"U+304A", "U+3059", "U+3059", "U+3081">>, <<"U+63A8", "U+5968">>, <<"U+9069", "U+4EFB">>, <<"U+5C02", "U+9580">>, <<"U+30A8", "U+30AD", "U+30B9", "U+30D1", "U+30FC", "U+30C8">>, <<"U+8A73", "U+3057", "U+3044">>,
               <<"U+30E1", "U+30F3", "U+30BF", "U+30FC">>, <<"U+6307", "U+5C0E">>, <<"U+65B0", "U+4EBA">>, <<"U+82E5", "U+624B">>, <<"U+30D9", "U+30C6", "U+30E9", "U+30F3">>, <<"U+30B7", "U+30CB", "U+30A2">>} :
     Includes(q, term)

\* C18: for a general question with no aggregation detected, a query about
\* the departments or the skills that exist is answered with a list
\* aggregation and no escalation; every other query escalates, with the
\* scorer's results when it holds a sub-intent term (empty or not) and with no
\* result otherwise
C18_GeneralHandler ==
  GeneralHandled =>
    LET q == ToLowerCase(call.query)
        departments == Includes(q, <<"U+90E8", "U+7F72">>) /\ Includes(q, <<"U+4F55", "U+304C", "U+3042", "U+308B">>)
        skills == Includes(q, <<"U+30B9", "U+30AD", "U+30EB">>) \/ Includes(q, <<"U+6280", "U+8853">>)
    IN  /\ call.queryType = "general_question"
        /\ departments => ReturnsList(GetUniqueDepartments)
        /\ (~departments /\ skills) => ReturnsList(GetUniqueSkills)
        /\ ~(departments \/ skills)
             => /\ call.shouldUseGemini
                /\ call.aggregation = NoAggregation
                /\ call.results = IF SubIntent(q) THEN PerformSearch(call.query)
                                  ELSE << >>

\* a recommendation query that escalates although the scorer has results
C18_Witness ==
  /\ GeneralHandled
  /\ SubIntent(ToLowerCase(call.query))
  /\ call.results # << >>
  /\ call.shouldUseGemini

\* the increments of the conversational heuristic that apply to a record,
\* in tenths
SeniorityIncrement(q, person) ==
  IF Includes(q, <<"U+30D9", "U+30C6", "U+30E9", "U+30F3">>) \/ Includes(q, <<"U+30B7", "U+30CB", "U+30A2">>) \/ Includes(q, <<"U+7D4C", "U+9A13", "U+8C4A", "U+5BCC">>)
  THEN (IF person.yearsOfExperience >= 5 THEN 3
        ELSE IF person.yearsOfExperience >= 3 THEN 2 ELSE 0)
  ELSE 0

JuniorIncrement(q, person) ==
  IF Includes(q, <<"U+82E5", "U+624B">>) \/ Includes(q, <<"U+65B0", "U+4EBA">>)
  THEN (IF person.yearsOfExperience <= 2 THEN 3
        ELSE IF person.yearsOfExperience <= 3 THEN 2 ELSE 0)
  ELSE 0

MultiSkillIncrement(q, person) ==
  IF (Includes(q, <<"U+8907", "U+6570">>) \/ Includes(q, <<"U+591A", "U+69D8">>)) /\ Len(person.skills) >= 3
  THEN 2 ELSE 0

CertificationIncrement(q, person) ==
  IF (Includes(q, <<"U+8CC7", "U+683C">>) \/ Includes(q, <<"U+8A8D", "U+5B9A">>))
     /\ Len(person.qualifications) > 0
  THEN 2 ELSE 0

DepartmentIncrement(q, person) ==
  LET Affinity(term) ==
        IF Includes(q, term) /\ Includes(person.department, term) THEN 3 ELSE 0
  IN  Affinity(<<"U+958B", "U+767A">>) + Affinity(<<"U+30A4", "U+30F3", "U+30D5", "U+30E9">>) + Affinity(<<"U+30C7", "U+30B6", "U+30A4", "U+30F3">>)

SumOfIncrements(q, person) ==
  SeniorityIncrement(q, person) + JuniorIncrement(q, person)
    + MultiSkillIncrement(q, person) + CertificationIncrement(q, person)
    + DepartmentIncrement(q, person)

\* the score of the first of the exact, partial and cosine steps that applies
LexicalStep(q, i) ==
  IF ExactStep(q, persons[i]) THEN One
  ELSE IF PartialStep(q, persons[i]) THEN Tenths(8)
  ELSE CosineStep(q, i)

\* C19: for every query handed to the scorer that holds a conversational
\* term, the heuristic's score of a record is the sum of the fixed increments
\* that apply to it (seniority, junior, multi-skill, certification and
\* department affinity), and it is the relevance of the record unless a
\* lexical step scores more; for the other queries the heuristic adds nothing
C19_ConversationalIncrements ==
  ScorerRan =>
    \A k \in DOMAIN call.results :
       LET q == ToLowerCase(call.query)
           i == call.results[k].ref
       IN  call.results[k].relevance
             = IF IsConversationalQuery(q)
               THEN RelMax(LexicalStep(q, i),
                           Tenths(SumOfIncrements(q, persons[i])))
               ELSE LexicalStep(q, i)

\* a record returned at the sum of several increments, above what its lexical
\* step scores
C19_Witness ==
  /\ ScorerRan
  /\ \E k \in DOMAIN call.results :
        LET q == ToLowerCase(call.query)
            person == persons[call.results[k].ref]
        IN  /\ call.results[k].relevance = Tenths(SumOfIncrements(q, person))
            /\ RelLess(LexicalStep(q, call.results[k].ref),
                       call.results[k].relevance)
            /\ SeniorityIncrement(q, person) = 2
            /\ JuniorIncrement(q, person) = 2
            /\ MultiSkillIncrement(q, person) = 2
            /\ CertificationIncrement(q, person) = 2
            /\ DepartmentIncrement(q, person) = 3

\* the results of the call are those of findTopPerformers
TopPerformersRan ==
  /\ AnalyticalHandled
  /\ AnalyticalBranch(call.query) = "topPerformers"

\* the composite of persons[i], in tenths: skills x 0.3 + qualifications x 0.2
\* + years x 0.1
Composite(i) ==
  3 * Len(persons[i].skills) + 2 * Len(persons[i].qualifications)
    + persons[i].yearsOfExperience

\* C20: findTopPerformers returns min(3, number of records) different
\* records, each with its composite as relevance, in non-increasing order of
\* composite, and no record left out has a larger composite than a returned
\* one
C20_TopPerformers ==
  TopPerformersRan =>
    LET refs == {call.results[k].ref : k \in DOMAIN call.results}
    IN  /\ Len(call.results) = (IF Len(persons) < 3 THEN Len(persons) ELSE 3)
        /\ Cardinality(refs) = Len(call.results)
        /\ refs \subseteq DOMAIN persons
        /\ \A k \in DOMAIN call.results :
              /\ call.results[k].person = persons[call.results[k].ref]
              /\ call.results[k].relevance
                   = Tenths(Composite(call.results[k].ref))
        /\ \A k \in 1..(Len(call.results) - 1) :
              Composite(call.results[k].ref) >= Composite(call.results[k + 1].ref)
        /\ \A i \in DOMAIN persons \ refs :
              \A k \in DOMAIN call.results :
                 Composite(i) <= Composite(call.results[k].ref)

\* three records returned out of more, in another order than the corpus,
\* with a record of a smaller composite left out
C20_Witness ==
  /\ TopPerformersRan
  /\ Len(persons) > 3
  /\ Len(call.results) = 3
  /\ call.results[1].ref > call.results[2].ref
  /\ Composite(call.results[1].ref) > Composite(call.results[3].ref)
  /\ \E i \in DOMAIN persons :
        /\ \A k \in 1..3 : call.results[k].ref # i
        /\ Composite(i) < Composite(call.results[3].ref)

\* the step is the timer of withTimeout firing for request r
TimedOut(r) == Pending(r) /\ requests'[r].outcome = "timeout"

\* the step appends a message of the assistant to the chat
AssistantReplies ==
  /\ Len(chatHistory') > Len(chatHistory)
  /\ chatHistory'[Len(chatHistory')].role = "assistant"

\* C12: when the timer of the 30-second timeout fires for a pending query, the
\* user receives a fallback message as the reply to that query
C12_TimeoutYieldsFallback ==
  [][\A r \in DOMAIN requests : TimedOut(r) => AssistantReplies]_vars

\* the generation of request r was not configured, or its call failed
GenerationFailed(r) ==
  requests[r].outcome = "unavailable" \/ requests[r].generation = "failed"

\* C13: a user query whose generation is not configured or whose generation
\* call failed is answered with the fixed apology string
C13_FailureAnsweredWithApology ==
  \A r \in DOMAIN requests :
     (requests[r].handler = "send" /\ GenerationFailed(r))
       => requests[r].response = GenerationErrorMessage

ChunkTypes == {"basic", "skills", "experience", "qualifications"}

\* the number of chunks of type chunkType that refer to the record of index
\* personIndex
CountOfType(personIndex, chunkType) ==
  Cardinality({k \in DOMAIN chunks :
                 /\ chunks[k].personId = personIndex
                 /\ chunks[k].chunkType = chunkType})

\* the number of chunks of type chunkType a record is to have
ExpectedOfType(person, chunkType) ==
  CASE chunkType = "basic" -> 1
    [] chunkType = "skills" -> IF person.skills # << >> THEN 1 ELSE 0
    [] chunkType = "experience" -> IF person.experience # << >> THEN 1 ELSE 0
    [] chunkType = "qualifications" ->
         IF person.qualifications # << >> THEN 1 ELSE 0

InitializeReturned == call.op = "initialize" /\ ~call.threw

\* C21: after createChunks every chunk refers to a record of the input and
\* carries its name, the chunks are in the order of the records, and each
\* record has exactly one basic chunk and one skills, experience and
\* qualifications chunk exactly when that field is non-empty
C21_ChunksPerRecord ==
  InitializeReturned =>
    /\ \A k \in DOMAIN chunks :
          /\ chunks[k].personId \in 0..(Len(persons) - 1)
          /\ chunks[k].chunkType \in ChunkTypes
          /\ chunks[k].personName = persons[chunks[k].personId + 1].name
    /\ \A k \in 1..(Len(chunks) - 1) :
          chunks[k].personId <= chunks[k + 1].personId
    /\ \A i \in DOMAIN persons : \A chunkType \in ChunkTypes :
          CountOfType(i - 1, chunkType) = ExpectedOfType(persons[i], chunkType)

\* two records chunked, one without skills and one without experience and
\* qualifications, and one with all four chunks
C21_Witness ==
  /\ InitializeReturned
  /\ \E i \in DOMAIN persons : persons[i].skills = << >>
  /\ \E i \in DOMAIN persons :
        persons[i].experience = << >> /\ persons[i].qualifications = << >>
  /\ \E i \in DOMAIN persons :
        \A chunkType \in ChunkTypes : CountOfType(i - 1, chunkType) = 1

\* a file reader returned records
Ingested == call.op \in {"readExcelFile", "parsePersonData"} /\ call.success

\* C22: every record produced by the ingestion of an Excel or a CSV file has
\* a non-empty name and a non-empty department
C22_NameAndDepartmentNonEmpty ==
  Ingested =>
    \A k \in DOMAIN call.data :
       call.data[k].name # << >> /\ call.data[k].department # << >>

\* calculateCosineSimilarity returned
CosineReturned == call.op = "calculateCosineSimilarity"

\* C23: the token-frequency cosine similarity is symmetric, lies in [0, 1]
\* for all inputs, and is 0 when either text yields no token
C23_CosineSymmetricBoundedZero ==
  CosineReturned =>
    /\ call.similarity = call.exchanged
    /\ ~RelLess(call.similarity, Zero)
    /\ ~RelLess(One, call.similarity)
    /\ ~call.aboveOne
    /\ (SplitWords(call.query) = << >> \/ SplitWords(call.text) = << >>)
         => call.similarity = Zero

\* C23, without the upper bound: the similarity is symmetric, not negative,
\* and 0 when either text yields no token
C23_CosineSymmetricZero ==
  CosineReturned =>
    /\ call.similarity = call.exchanged
    /\ ~RelLess(call.similarity, Zero)
    /\ (SplitWords(call.query) = << >> \/ SplitWords(call.text) = << >>)
         => call.similarity = Zero

\* the same three words in two orders: the double is 1.0000000000000002
C23_AboveOne ==
  /\ CosineReturned
  /\ call.query # call.text
  /\ call.aboveOne

\* C24: an initialize that returns leaves exactly the chunks of its input,
\* whatever the engine held before; so a second initialize with the list the
\* engine was last initialized with leaves the chunks as they were, equal in
\* length and content
C24_InitializeIdempotent ==
  [][(call = Idle /\ call'.op = "initialize" /\ ~call'.threw)
       => /\ chunks' = CreateChunks(persons')
          /\ (persons' = persons /\ chunks = CreateChunks(persons))
               => (Len(chunks') = Len(chunks) /\ chunks' = chunks)]_vars

\* the engine initialized with two records that give seven chunks
C24_Witness ==
  /\ InitializeReturned
  /\ Len(persons) = 2
  /\ Len(chunks) > 6
  /\ chunks = CreateChunks(persons)

RECURSIVE IsSubsequence(_, _)
\* every element of shown is in stored, in the same order
IsSubsequence(shown, stored) ==
  IF shown = << >> THEN TRUE
  ELSE IF stored = << >> THEN FALSE
  ELSE IF Head(shown) = Head(stored)
       THEN IsSubsequence(Tail(shown), Tail(stored))
       ELSE IsSubsequence(shown, Tail(stored))

\* C25: every message of the displayed chat history is also in the persisted
\* chat history, in the same order
C25_DisplayedIsPersisted == IsSubsequence(chatHistory, storedChat)

\* C25 for the example buttons alone: while no message was sent from the
\* input field and no example click overlapped another request, the displayed
\* history is the persisted one
C25_ExamplesArePersisted ==
  (\A r \in DOMAIN requests : requests[r].handler = "example")
    /\ Len(requests) <= 1
    => IsSubsequence(chatHistory, storedChat)

\* C26: in every value search returns, an aggregation comes with empty
\* results and without escalation
C26_AggregationExcludesResults ==
  Returned =>
    (call.aggregation # NoAggregation
       => call.results = << >> /\ ~call.shouldUseGemini)

\* an aggregation returned by the general-question handler over records
C26_Witness ==
  /\ Returned
  /\ Len(persons) > 1
  /\ call.handler = "handleGeneralQuestion"
  /\ call.aggregation # NoAggregation
  /\ call.aggregation.type = "list"

\* search returned no result, no aggregation and no escalation
DeadEnd ==
  /\ call.results = << >>
  /\ call.aggregation = NoAggregation
  /\ ~call.shouldUseGemini

\* C27: over a store that holds a record, search never returns no result
\* together with no aggregation and no escalation; so the string that
\* searchPersonsWithGemini replies when search does not escalate, formatResults
\* of the results and the aggregation, is never the fixed string for an empty
\* results array
C27_NoDeadEnd ==
  (Returned /\ Len(persons) > 0) =>
    /\ ~DeadEnd
    /\ (~call.shouldUseGemini
          /\ ~FormatResultsThrows(call.results, call.aggregation))
         => FormatResults(call.results, call.aggregation) # NoResultsMessage

\* the scorer found nothing over a store of two records and the call
\* escalated
C27_Witness ==
  /\ Returned
  /\ Len(persons) > 1
  /\ call.handler \in {"handleExactSearch", "handleFuzzySearch"}
  /\ call.results = << >>
  /\ call.shouldUseGemini

\* C27 over an empty store: the dead end is returned
C27_DeadEndOverEmptyStore ==
  /\ Returned
  /\ Len(persons) = 0
  /\ DeadEnd

\* the query holds one of the words that select the skill or the experience
\* statistics, or the skill list
NamesSkillOrExperience(q) ==
  \/ Includes(q, <<"U+30B9", "U+30AD", "U+30EB">>) \/ Includes(q, <<"U+6280", "U+8853">>)
  \/ Includes(q, <<"U+7D4C", "U+9A13">>) \/ Includes(q, <<"U+5E74", "U+6570">>)

\* C28: no call of search reaches the skill statistics or the experience
\* statistics of the analytical handler, nor the skill list of the
\* general-question handler: a query that holds スキル, 技術, 経験 or 年数 is
\* classified exact_search, so it is dispatched to neither handler
C28_SkillAndExperienceBranchesUnreachable ==
  call.op = "search" =>
    LET handler == HandlerOf(AnalyzeQueryType(call.query))
    IN  /\ NamesSkillOrExperience(ToLowerCase(call.query))
             => /\ AnalyzeQueryType(call.query) = "exact_search"
                /\ handler = "handleExactSearch"
        /\ handler = "handleAnalyticalQuery"
             => AnalyticalBranch(call.query) \notin {"skills", "experience"}
        /\ handler = "handleGeneralQuestion"
             => GeneralBranch(call.query) # "skills"
        /\ ~call.threw
             => /\ call.handler \in {"none", handler}
                /\ (call.handler = "handleAnalyticalQuery"
                      /\ call.aggregation # NoAggregation)
                     => AnalyticalBranch(call.query) = "departments"
                /\ (call.handler = "handleGeneralQuestion"
                      /\ call.aggregation # NoAggregation)
                     => GeneralBranch(call.query) = "departments"

\* a query that holds 経験, an analytical keyword too, answered by the exact
\* search handler over two records
C28_Witness ==
  /\ Returned
  /\ Len(persons) > 1
  /\ Includes(call.query, <<"U+7D4C", "U+9A13">>)
  /\ call.handler = "handleExactSearch"
  /\ call.queryType = "exact_search"

\* the search of request r was evaluated
SearchEvaluated(r) == requests[r].scored # << >>

\* C29: the search of every call of searchPersonsWithGemini is evaluated
\* against the list passed to that call and the chunks made from it, whatever
\* other calls are in flight
C29_SearchUsesOwnList ==
  \A r \in DOMAIN requests :
     SearchEvaluated(r) =>
       /\ requests[r].scored[1] = requests[r].passed
       /\ requests[r].scored[2] = CreateChunks(requests[r].passed)

\* two calls with different lists of records, both evaluated and both still
\* awaiting their generation
C29_Witness ==
  /\ Len(requests) > 1
  /\ requests[1].passed # requests[2].passed
  /\ requests[1].passed # << >> /\ requests[2].passed # << >>
  /\ SearchEvaluated(1) /\ SearchEvaluated(2)
  /\ Pending(1) /\ Pending(2)

RECURSIVE IsPrefix(_, _)
\* before is the beginning of after
IsPrefix(before, after) ==
  \/ before = << >>
  \/ /\ after # << >>
     /\ Head(before) = Head(after)
     /\ IsPrefix(Tail(before), Tail(after))

\* C30: but for a clear or a reset, no step removes a message from the
\* displayed chat history: every message appended by handleSendMessage or by
\* handleExampleClick stays, in its place
C30_MessagesNeverRemoved ==
  [][~(HandleClearChatHistory \/ HandleResetAllData)
       => IsPrefix(chatHistory, chatHistory')]_vars

\* C30 without an example click: the messages of handleSendMessage are only
\* ever appended
C30_SentMessagesNeverRemoved ==
  [][(~(HandleClearChatHistory \/ HandleResetAllData)
        /\ \A r \in DOMAIN requests : requests[r].handler = "send")
       => IsPrefix(chatHistory, chatHistory')]_vars
====
